---- MODULE Spec2Model ----
\* js-green-licenses: the dependency-graph license walk of LicenseChecker
\* (checker.ts) as a state machine.  Strings that the code takes apart or
\* builds (version specifiers, license names, paths) are sequences of tokens;
\* `${a}@${b}` is the pair <<a, b>>.
EXTENDS Integers, Sequences, FiniteSets, TLC

VARIABLES
    processedPackages,   \* Set<string>: packageName@version already processed
    failedPackages,      \* Set<string>: packageName@versionSpec that failed
    localPackages,       \* Set<string>: name@version of local (monorepo) packages
    config,              \* this.config
    greenLicenseExpr,    \* ids of the disjunction `(A OR B OR ...)`
    allowlistedLicenses, \* green-list entries that are no SPDX ids
    opts,                \* constructor options and registered listeners
    stack,               \* the suspended async calls of the run in flight
    status,              \* "idle" | "walking" | "done" | "rejected"
    runs,                \* entry-point calls made on this instance so far
    rejection,           \* the error the last entry-point call rejected with, or ""
    trace,               \* what the current run has emitted and requested
    prCalls,             \* the getPRCommits calls of one retrieval, the caller's first
    prRequests,          \* GET pulls/<id> requests issued so far
    prUnhandled,         \* errors of promises that rejected with nobody awaiting them
    fnCall,              \* the last direct call of one of the checker's functions
    fnResult,            \* what that call returned or threw
    other                \* the other of two overlapping entry-point calls, suspended

vars == <<processedPackages, failedPackages, localPackages, config,
          greenLicenseExpr, allowlistedLicenses, opts, stack, status, runs,
          rejection, trace, prCalls, prRequests, prUnhandled, fnCall, fnResult,
          other>>

\* a direct call of a function and its result
fnVars == <<fnCall, fnResult>>

\* the state of GitHubRepository.getPRCommits
prVars == <<prCalls, prRequests, prUnhandled>>

\* the state of LicenseChecker
checkerVars == <<processedPackages, failedPackages, localPackages, config,
                 greenLicenseExpr, allowlistedLicenses, opts, stack, status, runs,
                 rejection, trace, other>>

\* Number of entry-point calls made, one after the other, on one instance.
MaxRuns == 2

----------------------------------------------------------------------------
\* JSON values of a package.json

NoLicense == [kind |-> "undefined", str |-> <<>>, items |-> <<>>]

LicStr(s) == [kind |-> "string", str |-> <<s>>, items |-> <<>>]

\* an array license field; each item is given by its `type` (<<>>: the item
\* has no string `type`, e.g. the item is itself a string; <<"">>: the type
\* is the empty string)
LicArr(types) == [kind |-> "array", str |-> <<>>, items |-> types]

\* a legacy license object {type, url}, given by its `type` as in LicArr
LicObj(type) == [kind |-> "object", str |-> type, items |-> <<>>]

Dep(pkg, spec) == [pkg |-> pkg, spec |-> spec, isString |-> TRUE]

\* a dependency whose value is not a string (e.g. {"bar": 1})
BadDep(pkg) == [pkg |-> pkg, spec |-> <<>>, isString |-> FALSE]

\* name "" and version <<>> stand for an absent field
Pkg(name, version, license, deps, devDeps) ==
    [name |-> name, version |-> version, private |-> FALSE,
     license |-> license, licenses |-> NoLicense,
     dependencies |-> deps, devDependencies |-> devDeps]

V(s) == <<s>>

Caret(s) == <<"^", s>>

\* `${x}` of a version field: an absent one prints as "undefined"
VersionString(version) == IF version = <<>> THEN <<"undefined">> ELSE version

\* `${packageName}@${version}`
At(packageName, version) == <<packageName, version>>

----------------------------------------------------------------------------
\* The npm registry seen through package-json: one published version per name.

Published ==
    [foo    |-> Pkg("foo", V("1.2.3"), LicStr("ISC"),
                    <<Dep("bar", Caret("4.5.0"))>>, <<>>),
     bar    |-> Pkg("bar", V("4.5.6"), LicStr("EVIL"), <<>>, <<>>),
     baz    |-> Pkg("baz", V("7.8.9"), LicStr("ALSO-EVIL"), <<>>, <<>>),
     dia    |-> Pkg("dia", V("1.0.0"), LicStr("MIT"),
                    <<Dep("left", Caret("1.0.0")), Dep("right", Caret("1.0.0")),
                      Dep("ghost", Caret("1.0.0"))>>,
                    <<Dep("baz", Caret("7.0.0"))>>),
     left   |-> Pkg("left", V("1.0.0"), LicStr("MIT"),
                    <<Dep("shared", Caret("2.0.0"))>>,
                    <<Dep("baz", Caret("7.0.0"))>>),
     right  |-> Pkg("right", V("1.0.0"), LicStr("Apache 2"),
                    <<Dep("shared", V("2.0.0")), Dep("ghost", Caret("1.0.0"))>>,
                    <<>>),
     shared |-> Pkg("shared", V("2.0.0"), LicStr("EVIL"),
                    <<Dep("left", Caret("1.0.0"))>>, <<>>),
     bad    |-> [Pkg("bad", V("1.0.0"), NoLicense,
                     <<Dep("baz", Caret("7.0.0"))>>, <<>>)
                 EXCEPT !.licenses = LicArr(<<<<>>, <<>>>>)],
     odd    |-> Pkg("odd", V("one"), LicStr("EVIL"),
                    <<Dep("bar", Caret("4.5.0")), BadDep("baz")>>,
                    <<Dep("foo", Caret("1.2.3"))>>),
     sub    |-> Pkg("sub", V("1.0.0"), LicStr("EVIL"),
                    <<Dep("baz", Caret("7.0.0")), Dep("mono", V("1.0.0"))>>, <<>>)]

\* the specifiers each published version answers to
Satisfying ==
    [foo    |-> {V("latest"), Caret("1.2.3"), V("1.2.3")},
     bar    |-> {V("latest"), Caret("4.5.0")},
     baz    |-> {V("latest"), Caret("7.0.0")},
     dia    |-> {V("latest"), Caret("1.0.0")},
     left   |-> {V("latest"), Caret("1.0.0")},
     right  |-> {V("latest"), Caret("1.0.0")},
     shared |-> {V("latest"), Caret("2.0.0"), V("2.0.0")},
     bad    |-> {V("latest"), Caret("1.0.0")},
     odd    |-> {V("latest")},
     sub    |-> {V("latest"), Caret("1.0.0"), V("1.0.0")}]

NotFound == [ok |-> FALSE, json |-> Pkg("", <<>>, NoLicense, <<>>, <<>>)]

Found(json) == [ok |-> TRUE, json |-> json]

\* packageJson(packageName, {version: versionSpec, fullMetadata: true})
packageJson(packageName, versionSpec) ==
    IF packageName \in DOMAIN Published /\ versionSpec \in Satisfying[packageName]
    THEN Found(Published[packageName])
    ELSE NotFound

----------------------------------------------------------------------------
\* Paths and the local file system

RECURSIVE Normalize(_, _)
\* path.join's normalisation: ".." removes the segment before it
Normalize(done, todo) ==
    IF todo = <<>> THEN done
    ELSE IF Head(todo) = ".."
         THEN Normalize(IF done = <<>> THEN <<>> ELSE SubSeq(done, 1, Len(done) - 1),
                        Tail(todo))
         ELSE Normalize(Append(done, Head(todo)), Tail(todo))

\* path.join(a, b)
Join(a, b) == Normalize(<<>>, a \o b)

\* path.dirname(p)
Dirname(p) == SubSeq(p, 1, Len(p) - 1)

Text(json) == [valid |-> TRUE, json |-> json]

\* a file whose content is no JSON document
Garbage == [valid |-> FALSE, json |-> Pkg("", <<>>, NoLicense, <<>>, <<>>)]

PrivatePkg == [Pkg("", <<>>, NoLicense, <<>>, <<>>) EXCEPT !.private = TRUE]

\* the package.json files on disk, by directory
Files ==
    <<[dir  |-> <<"dir">>,
       file |-> Text(Pkg("hello", V("1.0.0"), LicStr("Apache-2.0"),
                         <<Dep("ghost", Caret("1.0.0")),
                           Dep("bad", Caret("1.0.0")),
                           Dep("foo", Caret("1.2.3"))>>, <<>>))],
      [dir  |-> <<"mono">>,
       file |-> Text(Pkg("mono", V("1.0.0"), LicStr("Apache-2.0"),
                         <<Dep("sub", Caret("1.0.0")),
                           Dep("foo", Caret("1.2.3"))>>, <<>>))],
      [dir  |-> <<"mono", "packages", "sub-package">>,
       file |-> Text(Published.sub)],
      [dir  |-> <<"primary">>,
       file |-> Text(Pkg("primary", V("1.0.0"), LicStr("Apache-2.0"),
                         <<Dep("linked", <<"file:", "..", "linked">>),
                           Dep("absent", <<"file:", "..", "absent">>),
                           Dep("foo", Caret("1.2.3"))>>, <<>>))],
      [dir  |-> <<"linked">>,
       file |-> Text(Pkg("linked", V("1.0.0"), LicStr("Apache-2.0"),
                         <<Dep("baz", Caret("7.0.0")),
                           Dep("inner", <<"file:", "inner">>)>>, <<>>))],
      [dir  |-> <<"linked", "inner">>,
       file |-> Text(Pkg("inner", V("1.0.0"), LicStr("EVIL"), <<>>, <<>>))],
      [dir  |-> <<"broken">>,
       file |-> Text(Pkg("top", V("1.0.0"), LicStr("MIT"),
                         <<Dep("bar", Caret("4.5.0"))>>, <<>>))],
      [dir  |-> <<"broken", "packages", "x">>, file |-> Garbage],
      [dir  |-> <<"private">>, file |-> Text(PrivatePkg)],
      [dir  |-> <<"closed">>,
       file |-> Text(Pkg("closed", V("1.0.0"), LicStr("UNLICENCED"), <<>>, <<>>))]>>

\* fs.readdir(<dir>/packages), in listing order; <<>> when there is none
Subpackages(directory) ==
    CASE directory = <<"mono">>   -> <<"sub-package", "empty">>
      [] directory = <<"broken">> -> <<"x">>
      [] OTHER                    -> <<>>

HasPackageJson(dir) == \E k \in 1..Len(Files) : Files[k].dir = dir

\* fsReadFile(<dir>/package.json)
ReadPackageJson(dir) ==
    IF HasPackageJson(dir)
    THEN [exists |-> TRUE,
          file |-> Files[CHOOSE k \in 1..Len(Files) : Files[k].dir = dir].file]
    ELSE [exists |-> FALSE, file |-> Garbage]

RECURSIVE SelectDirs(_)
\* the directories among ds that hold a package.json, in order
SelectDirs(ds) ==
    IF ds = <<>> THEN <<>>
    ELSE (IF HasPackageJson(Head(ds)) THEN <<Head(ds)>> ELSE <<>>)
         \o SelectDirs(Tail(ds))

\* getLocalPackageJsonFiles: the directories whose package.json is listed,
\* the top-level one first
getLocalPackageJsonFiles(directory) ==
    SelectDirs(<<directory>> \o
               [k \in 1..Len(Subpackages(directory)) |->
                   Join(directory, <<"packages", Subpackages(directory)[k]>>)])

LocalDirectories ==
    {<<"dir">>, <<"mono">>, <<"primary">>, <<"broken">>, <<"private">>, <<"closed">>}

----------------------------------------------------------------------------
\* License names, the configuration and init

DEFAULT_GREEN_LICENSES ==
    <<"0BSD", "AFL-2.1", "AFL-3.0", "APSL-2.0", "Apache-1.1", "Apache-2.0",
      "Artistic-1.0", "Artistic-2.0", "BSD-2-Clause", "BSD-3-Clause", "BSL-1.0",
      "CC-BY-1.0", "CC-BY-2.0", "CC-BY-2.5", "CC-BY-3.0", "CC-BY-4.0", "CC0-1.0",
      "CDDL-1.0", "CDDL-1.1", "CPL-1.0", "EPL-1.0", "FTL", "IPL-1.0", "ISC",
      "LGPL-2.0", "LGPL-2.1", "LGPL-3.0", "LPL-1.02", "MIT", "MPL-1.0",
      "MPL-1.1", "MPL-2.0", "MS-PL", "NCSA", "OpenSSL", "PHP-3.0", "Ruby",
      "Unlicense", "W3C", "Xnet", "ZPL-2.0", "Zend-2.0", "Zlib", "libtiff">>

Range(seq) == {seq[k] : k \in 1..Len(seq)}

\* the identifiers spdx-correct and spdx-satisfies know
SpdxIds == Range(DEFAULT_GREEN_LICENSES) \cup {"GPL-3.0"}

\* spdxCorrect(license): the SPDX id a free-form name is corrected to, <<>>
\* (null) when there is none
spdxCorrect(license) ==
    CASE Len(license) = 1 /\ license[1] \in SpdxIds -> license
      [] license = <<"Apache 2">>                    -> <<"Apache-2.0">>
      [] license = <<"GPLv3">>                       -> <<"GPL-3.0">>
      [] OTHER                                       -> <<>>

\* a checker that knows no npm marker and asks spdx-correct only
correctLicenseNameSpdxOnly(license) == spdxCorrect(license)

\* correctLicenseName(license)
correctLicenseName(license) ==
    IF license = <<"UNLICENSED">> \/ license = <<"UNLICENCED">>
    THEN <<"UNLICENSED">>
    ELSE spdxCorrect(license)

\* spdxSatisfies(correctedName, `(${ids.join(' OR ')})`); it throws on a
\* name or an expression that is no SPDX expression
spdxSatisfies(correctedName, exprIds) ==
    IF \/ Len(correctedName) # 1 \/ correctedName[1] \notin SpdxIds
       \/ exprIds = <<>> \/ \E k \in 1..Len(exprIds) : exprIds[k] \notin SpdxIds
    THEN [threw |-> TRUE, value |-> FALSE]
    ELSE [threw |-> FALSE, value |-> correctedName[1] \in Range(exprIds)]

\* a configuration file's content; hasGreenLicenses is FALSE when the key is absent
Cfg(hasGreen, green, allow) ==
    [hasGreenLicenses |-> hasGreen, greenLicenses |-> green,
     packageAllowlist |-> allow]

\* no configuration file (getLocalConfig returned null): {}
NoConfig == Cfg(FALSE, <<>>, <<>>)

Configs ==
    {NoConfig,
     Cfg(FALSE, <<>>, <<"bar", "bad", "odd">>),
     Cfg(TRUE, <<<<"Foo License">>, <<"EVIL">>, <<"private">>, <<"Apache 2">>>>, <<>>)}

RECURSIVE SelectCorrected(_)
\* validGreenLicenses: the corrected names of the entries that correct
SelectCorrected(licenses) ==
    IF licenses = <<>> THEN <<>>
    ELSE (IF correctLicenseName(Head(licenses)) # <<>>
          THEN <<correctLicenseName(Head(licenses))[1]>> ELSE <<>>)
         \o SelectCorrected(Tail(licenses))

RECURSIVE SelectUncorrected(_)
\* invalidGreenLicenses: the entries that do not correct, as given
SelectUncorrected(licenses) ==
    IF licenses = <<>> THEN <<>>
    ELSE (IF correctLicenseName(Head(licenses)) = <<>>
          THEN <<Head(licenses)>> ELSE <<>>)
         \o SelectUncorrected(Tail(licenses))

\* a configured list that adds to the default list
GreenLicensesOfAdded(cfg) ==
    [k \in 1..Len(DEFAULT_GREEN_LICENSES) |-> <<DEFAULT_GREEN_LICENSES[k]>>]
    \o cfg.greenLicenses

\* this.config.greenLicenses || DEFAULT_GREEN_LICENSES
GreenLicensesOf(cfg) ==
    IF cfg.hasGreenLicenses
    THEN cfg.greenLicenses
    ELSE [k \in 1..Len(DEFAULT_GREEN_LICENSES) |-> <<DEFAULT_GREEN_LICENSES[k]>>]

\* an init that clears nothing
ClearedByInitNothing == {}

\* the sets init() clears
ClearedByInit == {"processedPackages", "failedPackages"}

\* init(cfg), on the three sets as they are when it is called
init(cfg, processed, failed, local) ==
    [config              |-> cfg,
     greenLicenseExpr    |-> SelectCorrected(GreenLicensesOf(cfg)),
     allowlistedLicenses |-> SelectUncorrected(GreenLicensesOf(cfg)),
     processedPackages   |-> IF "processedPackages" \in ClearedByInit THEN {} ELSE processed,
     failedPackages      |-> IF "failedPackages" \in ClearedByInit THEN {} ELSE failed,
     localPackages       |-> IF "localPackages" \in ClearedByInit THEN {} ELSE local]

RECURSIVE JoinOr(_)
\* types.join(' OR ')
JoinOr(types) ==
    IF types = <<>> THEN <<>>
    ELSE IF Len(types) = 1 THEN Head(types)
    ELSE Head(types) \o <<"OR">> \o JoinOr(Tail(types))

\* license.map(x => x.type).filter(x => !!x)
NonEmpty(types) == SelectSeq(types, LAMBDA t : t # <<>> /\ t # <<"">>)

\* a getLicense that has no name for a private package
getLicenseWithoutPrivate(pkgJson) ==
    LET license == IF pkgJson.license.kind = "undefined"
                      \/ (pkgJson.license.kind = "string" /\ pkgJson.license.str = <<>>)
                   THEN pkgJson.licenses ELSE pkgJson.license
        types == NonEmpty(license.items)
    IN  CASE license.kind = "undefined"
             \/ (license.kind = "string" /\ license.str = <<>>) -> <<>>
          [] license.kind = "string" -> license.str
          [] license.kind = "array" ->
                 IF license.items = <<>> THEN <<>>
                 ELSE IF Len(types) = 1 THEN types[1]
                 ELSE <<"(">> \o JoinOr(types) \o <<")">>
          [] OTHER -> IF license.str = <<"">> THEN <<>> ELSE license.str

\* getLicense(pkgJson); <<>> is null
getLicense(pkgJson) ==
    LET license == IF pkgJson.license.kind = "undefined"
                      \/ (pkgJson.license.kind = "string" /\ pkgJson.license.str = <<>>)
                   THEN pkgJson.licenses ELSE pkgJson.license
        types == NonEmpty(license.items)
    IN  CASE license.kind = "undefined"
             \/ (license.kind = "string" /\ license.str = <<>>) ->
                 IF pkgJson.private THEN <<"private">> ELSE <<>>
          [] license.kind = "string" -> license.str
          [] license.kind = "array" ->
                 IF license.items = <<>> THEN <<>>
                 ELSE IF Len(types) = 1 THEN types[1]
                 ELSE <<"(">> \o JoinOr(types) \o <<")">>
          [] OTHER -> IF license.str = <<"">> THEN <<>> ELSE license.str

\* an isGreenLicense that knows SPDX ids only
isGreenLicenseSpdxOnly(license, exprIds, allowlisted) ==
    IF license = <<>> \/ correctLicenseName(license) = <<>> THEN FALSE
    ELSE spdxSatisfies(correctLicenseName(license), exprIds).value

\* isGreenLicense(license) under the rule set built by init
isGreenLicense(license, exprIds, allowlisted) ==
    IF license = <<>> THEN FALSE
    ELSE IF correctLicenseName(license) = <<>>
         THEN \E k \in 1..Len(allowlisted) : allowlisted[k] = license
         ELSE spdxSatisfies(correctLicenseName(license), exprIds).value

\* isPackageAllowlisted(packageName)
isPackageAllowlisted(cfg, packageName) ==
    \E k \in 1..Len(cfg.packageAllowlist) : cfg.packageAllowlist[k] = packageName

\* version strings semver.valid accepts
SemverStrings == {"1.0.0", "1.2.3", "2.0.0", "4.5.6", "7.8.9", "0.0.0"}

\* semver.valid(version) is not null
semverValid(version) == Len(version) = 1 /\ version[1] \in SemverStrings

\* isLicense(obj) of package-json-file.ts
isLicense(obj) ==
    CASE obj.kind = "string" -> TRUE
      [] obj.kind = "object" -> obj.str # <<>>
      [] obj.kind = "array"  -> \A k \in 1..Len(obj.items) : obj.items[k] # <<>>
      [] OTHER               -> FALSE

\* isDependencies(obj)
isDependencies(deps) == \A k \in 1..Len(deps) : deps[k].isString

\* isPackageJson(obj)
isPackageJson(json) ==
    \/ json.private
    \/ /\ json.name # ""
       /\ json.version # <<>>
       /\ (json.license.kind = "undefined" \/ isLicense(json.license))
       /\ (json.licenses.kind = "undefined" \/ isLicense(json.licenses))
       /\ isDependencies(json.dependencies)
       /\ isDependencies(json.devDependencies)

----------------------------------------------------------------------------
\* Events and the suspended calls

Ev(type, packageName, version, licenseName, parentPackages, filePath) ==
    [type |-> type, packageName |-> packageName, version |-> version,
     licenseName |-> licenseName, parentPackages |-> parentPackages,
     filePath |-> filePath]

\* emit('non-green-license', {packageName, version, licenseName, parentPackages})
NonGreenLicense(packageName, version, licenseName, parents) ==
    Ev("non-green-license", packageName, version, licenseName, parents, <<>>)

\* emit('error', {err, packageName, versionSpec, parentPackages})
CheckError(packageName, versionSpec, parents) ==
    Ev("error", packageName, versionSpec, <<>>, parents, <<>>)

\* emit('package.json', filePath)
PackageJsonEvent(filePath) == Ev("package.json", "", <<>>, <<>>, <<>>, filePath)

\* a completion signal emitted under another name
EndEventRenamed == Ev("finish", "", <<>>, <<>>, <<>>, <<>>)

\* emit('end')
EndEvent == Ev("end", "", <<>>, <<>>, <<>>, <<>>)

\* a call of packageJson(packageName, {version: versionSpec}); no event, kept
\* in the trace to order the registry requests with the events
Request(packageName, versionSpec, parents) ==
    Ev("request", packageName, versionSpec, <<>>, parents, <<>>)

\* fsReadFile(packageJsonPath) inside getPackageJson; no event, kept in the
\* trace like a request
Read(packageName, versionSpec, parents, filePath) ==
    Ev("read", packageName, versionSpec, <<>>, parents, filePath)

EmptyJson == Pkg("", <<>>, NoLicense, <<>>, <<>>)

Frame(kind, packageName, versionSpec, localDirectory, parents, json, loop, files) ==
    [kind |-> kind, packageName |-> packageName, versionSpec |-> versionSpec,
     localDirectory |-> localDirectory, parents |-> parents, json |-> json,
     key |-> At("", <<>>), loop |-> loop, i |-> 1, files |-> files]

Top(stk) == stk[Len(stk)]

Pop(stk) == SubSeq(stk, 1, Len(stk) - 1)

SetTop(stk, f) == [stk EXCEPT ![Len(stk)] = f]

\* versionSpec.replace(/^[~^]/, '')
Stripped(versionSpec) ==
    IF versionSpec # <<>> /\ Head(versionSpec) \in {"~", "^"}
    THEN Tail(versionSpec)
    ELSE versionSpec

\* versionSpec.startsWith('file:') && localDirectory
IsFileSpec(versionSpec, localDirectory) ==
    versionSpec # <<>> /\ Head(versionSpec) = "file:" /\ localDirectory # <<>>

\* path.join(localDirectory, relativePath), the directory read by getPackageJson
LinkedDirectory(versionSpec, localDirectory) == Join(localDirectory, Tail(versionSpec))

\* a checkLicenses that does not look at localPackages
checkLicensesOutcomeRemoteOnly(dep, failed, local) ==
    CASE ~dep.isString                    -> "throw"
      [] At(dep.pkg, dep.spec) \in failed -> "skip"
      [] OTHER                            -> "await"

\* checkLicenses up to its first await: "throw" (versionSpec is no string),
\* "skip" (failed before, or a local package) or "await" (getPackageJson called)
checkLicensesOutcome(dep, failed, local) ==
    CASE ~dep.isString                            -> "throw"
      [] At(dep.pkg, dep.spec) \in failed         -> "skip"
      [] At(dep.pkg, Stripped(dep.spec)) \in local -> "skip"
      [] OTHER                                    -> "await"

\* a getPackageJson that asks twice without waiting for the first answer
getPackageJsonCallTwice(dep, localDirectory, parents) ==
    <<Request(dep.pkg, dep.spec, parents), Request(dep.pkg, dep.spec, parents)>>

\* what getPackageJson does before it awaits: 'package.json' is emitted for a
\* file: dependency, the registry is asked otherwise
getPackageJsonCall(dep, localDirectory, parents) ==
    LET packageJsonPath ==
            Append(LinkedDirectory(dep.spec, localDirectory), "package.json")
    IN  IF IsFileSpec(dep.spec, localDirectory)
        THEN <<PackageJsonEvent(packageJsonPath),
               Read(dep.pkg, dep.spec, parents, packageJsonPath)>>
        ELSE <<Request(dep.pkg, dep.spec, parents)>>

\* what getPackageJson settles with
getPackageJsonResult(packageName, versionSpec, localDirectory) ==
    IF IsFileSpec(versionSpec, localDirectory)
    THEN LET r == ReadPackageJson(LinkedDirectory(versionSpec, localDirectory))
         IN  [ok |-> r.exists /\ r.file.valid, json |-> r.file.json]
    ELSE packageJson(packageName, versionSpec)

\* a walk that hands its own parents on unchanged
ChildParentsSame(parents, packageAndVersion) == parents

\* the parents passed on to the dependencies: ...parents, packageAndVersion
ChildParents(parents, packageAndVersion) == Append(parents, packageAndVersion)

\* a catch clause that records nothing
FailedAfterCatchForgets(failed, packageName, versionSpec) == failed

\* the catch clause of checkLicenses: this.failedPackages.add(spec)
FailedAfterCatch(failed, packageName, versionSpec) ==
    failed \cup {At(packageName, versionSpec)}

\* json?.name || '(unknown package)'
UnknownName(json) == IF json.name = "" THEN "(unknown package)" ELSE json.name

\* json?.version || '(unknown version)'
UnknownVersion(json) == IF json.version = <<>> THEN <<"(unknown version)">> ELSE json.version

\* a payload that carries the specifier without its range character
CatchPayloadStripped(f) == CheckError(f.packageName, Stripped(f.versionSpec), f.parents)

\* the payload of the 'error' event emitted by the catch clause of
\* checkLicenses: the arguments of the call
CatchPayload(f) == CheckError(f.packageName, f.versionSpec, f.parents)

\* the payload of the 'error' event emitted by the catch clause of
\* checkPackageJsonContent
ContentCatchPayload(json) == CheckError(UnknownName(json), UnknownVersion(json), <<>>)

\* what emit('error', ...) throws when no 'error' listener is registered
Unhandled == "ERR_UNHANDLED_ERROR"

RECURSIVE Unwind(_, _, _, _, _)
\* an exception err leaving the call on top of stk: it travels down to the
\* nearest catch clause (checkLicenses, checkPackageJsonContent); the clause
\* emits 'error', and emit throws in its turn when no 'error' listener is
\* registered.  json is the manifest object of the call just left.
Unwind(stk, failed, tr, json, err) ==
    IF stk = <<>>
    THEN [stack |-> <<>>, failed |-> failed, trace |-> tr, rejection |-> err]
    ELSE LET f == Top(stk)
             failed2 == FailedAfterCatch(failed, f.packageName, f.versionSpec)
             tr2 == Append(tr, CatchPayload(f))
             tr3 == Append(tr, ContentCatchPayload(json))
         IN  CASE f.kind = "checkLicenses" ->
                    IF opts.errorListener
                    THEN [stack |-> Pop(stk), failed |-> failed2, trace |-> tr2,
                          rejection |-> ""]
                    ELSE Unwind(Pop(stk), failed2, tr2, json, Unhandled)
               [] f.kind = "checkPackageJsonContent" ->
                    IF opts.errorListener
                    THEN [stack |-> Pop(stk), failed |-> failed, trace |-> tr3,
                          rejection |-> ""]
                    ELSE Unwind(Pop(stk), failed, tr3, json, Unhandled)
               [] f.kind = "checkPackageJson" ->
                    Unwind(Pop(stk), failed, tr, f.json, err)
               [] OTHER -> Unwind(Pop(stk), failed, tr, json, err)

\* the state after the exception err has left the call on top of stk
Throw(stk, json, err) ==
    LET u == Unwind(stk, failedPackages, trace, json, err)
    IN  /\ stack' = u.stack
        /\ failedPackages' = u.failed
        /\ trace' = u.trace
        /\ status' = IF u.rejection # "" THEN "rejected" ELSE status
        /\ rejection' = u.rejection


----------------------------------------------------------------------------
\* The pull-request snapshots and the package arguments

Snapshots == {"sha1", "sha2"}

\* repo.getPackageJsonFiles(mergeCommitSha)
getPackageJsonFiles(commitSha) ==
    IF commitSha = "sha1"
    THEN <<[filePath |-> <<"package.json">>,
            content  |-> Text(Pkg("pr1", V("1.0.0"), LicStr("GPLv3"),
                                  <<Dep("odd", V("latest")),
                                    Dep("linked", <<"file:", "..", "linked">>),
                                    Dep("foo", Caret("1.2.3"))>>, <<>>))],
           [filePath |-> <<"packages", "junk", "package.json">>,
            content  |-> Garbage],
           [filePath |-> <<"packages", "web", "package.json">>,
            content  |-> Text(Pkg("web", V("1.0.0"), LicStr("MIT"),
                                  <<Dep("dia", Caret("1.0.0"))>>, <<>>))]>>
    ELSE <<[filePath |-> <<"package.json">>,
            content  |-> Text([Pkg("pr2", <<>>, NoLicense, <<>>,
                                   <<Dep("bar", Caret("4.5.0"))>>)
                               EXCEPT !.licenses = LicArr(<<<<>>, <<>>>>)])]>>

\* config.getGitHubConfig(repo, mergeCommitSha)
getGitHubConfig(commitSha) ==
    IF commitSha = "sha1" THEN Cfg(FALSE, <<>>, <<"bar", "bad", "odd">>)
    ELSE Cfg(FALSE, <<>>, <<"pr2">>)

\* the <package or package@version> arguments: name and what follows the @
RemoteArgs ==
    {[name |-> "foo", rawSpec |-> <<>>],
     [name |-> "dia", rawSpec |-> <<>>],
     [name |-> "bad", rawSpec |-> Caret("1.0.0")],
     [name |-> "odd", rawSpec |-> <<>>],
     [name |-> "ghost", rawSpec |-> <<>>],
     [name |-> "sub", rawSpec |-> V("1.0.0")],
     [name |-> "foo", rawSpec |-> <<"git+ssh:", "host", "foo.git">>]}

\* an npmPackageArg for which every specifier is a version
npmPackageArgAnyVersion(pkg) ==
    [type |-> "version", name |-> pkg.name,
     fetchSpec |-> IF pkg.rawSpec = <<>> THEN <<"latest">> ELSE pkg.rawSpec]

\* npmPackageArg(pkg)
npmPackageArg(pkg) ==
    CASE pkg.rawSpec = <<>> ->
             [type |-> "tag", name |-> pkg.name, fetchSpec |-> <<"latest">>]
      [] pkg.rawSpec = <<"latest">> ->
             [type |-> "tag", name |-> pkg.name, fetchSpec |-> pkg.rawSpec]
      [] Head(pkg.rawSpec) \in {"^", "~"} ->
             [type |-> "range", name |-> pkg.name, fetchSpec |-> pkg.rawSpec]
      [] Head(pkg.rawSpec) = "git+ssh:" ->
             [type |-> "git", name |-> pkg.name, fetchSpec |-> pkg.rawSpec]
      [] Head(pkg.rawSpec) = "file:" ->
             [type |-> "directory", name |-> pkg.name, fetchSpec |-> pkg.rawSpec]
      [] OTHER ->
             [type |-> "version", name |-> pkg.name, fetchSpec |-> pkg.rawSpec]

----------------------------------------------------------------------------
\* Two entry-point calls in flight at once.  The call whose continuation
\* runs has its call stack and events in stack, status, rejection and trace;
\* the other call is suspended at an await and kept in `other`.  The fields
\* of a second LicenseChecker are kept there too while a call on the first
\* instance runs.

\* the fields of a new LicenseChecker
NewInstance ==
    [processedPackages |-> {}, failedPackages |-> {}, localPackages |-> {},
     config |-> NoConfig, greenLicenseExpr |-> <<>>, allowlistedLicenses |-> <<>>]

\* no other call: current is the number of the call that is running
NoCall ==
    [status |-> "none", current |-> 1, same |-> TRUE, stack |-> <<>>,
     trace |-> <<>>, rejection |-> "", instance |-> NewInstance]

----------------------------------------------------------------------------
\* The state machine

Init ==
    /\ processedPackages = {}
    /\ failedPackages = {}
    /\ localPackages = {}
    /\ config = NoConfig
    /\ greenLicenseExpr = <<>>
    /\ allowlistedLicenses = <<>>
    /\ opts \in [dev : BOOLEAN, errorListener : BOOLEAN]
    /\ stack = <<>>
    /\ status = "idle"
    /\ runs = 0
    /\ rejection = ""
    /\ trace = <<>>
    /\ prCalls = <<>>
    /\ prRequests = 0
    /\ prUnhandled = <<>>
    /\ fnCall = [fn |-> "", arg |-> <<>>]
    /\ fnResult = <<>>
    /\ other = NoCall

\* no run is in flight and another entry-point call may be made
CanStart == status \in {"idle", "done", "rejected"} /\ runs < MaxRuns

\* the assignments of init(cfg)
DoInit(cfg) ==
    LET r == init(cfg, processedPackages, failedPackages, localPackages)
    IN  /\ config' = r.config
        /\ greenLicenseExpr' = r.greenLicenseExpr
        /\ allowlistedLicenses' = r.allowlistedLicenses
        /\ processedPackages' = r.processedPackages
        /\ failedPackages' = r.failedPackages
        /\ localPackages' = r.localPackages

\* checkRemotePackage(pkg), up to its first await inside checkLicenses
CheckRemotePackage(pkg, cfg) ==
    LET pkgArgs == npmPackageArg(pkg)
        dep == Dep(pkgArgs.name, pkgArgs.fetchSpec)
        entry == Frame("checkRemotePackage", "", <<>>, <<>>, <<>>, EmptyJson, "await", <<>>)
        call == Frame("checkLicenses", dep.pkg, dep.spec, <<>>, <<>>, EmptyJson,
                      "fetching", <<>>)
        outcome == checkLicensesOutcome(dep, failedPackages', localPackages')
    IN  /\ CanStart
        /\ UNCHANGED <<prVars, fnVars, other>>
        /\ runs' = runs + 1
        /\ DoInit(cfg)
        /\ UNCHANGED opts
        /\ IF pkgArgs.type \notin {"tag", "version", "range"}
              \/ pkgArgs.name = "" \/ pkgArgs.fetchSpec = <<>>
           THEN /\ status' = "rejected"
                /\ rejection' = IF pkgArgs.type \notin {"tag", "version", "range"}
                                THEN "Unsupported package spec"
                                ELSE "Invalid package spec"
                /\ stack' = <<>>
                /\ trace' = <<>>
           ELSE /\ status' = "walking"
                /\ rejection' = ""
                /\ IF outcome = "await"
                   THEN /\ stack' = <<entry, call>>
                        /\ trace' = getPackageJsonCall(dep, <<>>, <<>>)
                   ELSE /\ stack' = <<entry>>
                        /\ trace' = <<>>

\* checkLocalDirectory(directory), up to the first read of a package.json
CheckLocalDirectory(directory, cfg) ==
    /\ CanStart
    /\ UNCHANGED <<prVars, fnVars, other>>
    /\ runs' = runs + 1
    /\ DoInit(cfg)
    /\ UNCHANGED opts
    /\ status' = "walking"
    /\ rejection' = ""
    /\ stack' = <<Frame("checkLocalDirectory", "", <<>>, directory, <<>>, EmptyJson,
                        "register", getLocalPackageJsonFiles(directory))>>
    /\ trace' = <<>>

\* a registration that records nothing
RegisteredNothing(local, json) == local

\* if (json && json.name && json.version) this.localPackages.add(name@version)
Registered(local, json) ==
    IF json.name # "" /\ json.version # <<>>
    THEN local \cup {At(json.name, json.version)}
    ELSE local

\* the first loop of checkLocalDirectory: one package.json read, parsed and
\* added to localPackages
RegisterLocalPackage ==
    LET f == Top(stack)
        file == ReadPackageJson(f.files[f.i]).file
    IN  /\ status = "walking"
        /\ UNCHANGED <<prVars, fnVars, other>>
        /\ stack # <<>>
        /\ f.kind = "checkLocalDirectory"
        /\ f.loop = "register"
        /\ UNCHANGED <<processedPackages, config, greenLicenseExpr,
                       allowlistedLicenses, opts, runs>>
        /\ IF f.i > Len(f.files)
           THEN /\ stack' = SetTop(stack, [f EXCEPT !.loop = "check", !.i = 1])
                /\ UNCHANGED <<localPackages, failedPackages, trace, status, rejection>>
           ELSE IF ~file.valid
           THEN /\ Throw(stack, EmptyJson, "SyntaxError")
                /\ UNCHANGED localPackages
           ELSE /\ localPackages' = Registered(localPackages, file.json)
                /\ stack' = SetTop(stack, [f EXCEPT !.i = @ + 1])
                /\ UNCHANGED <<failedPackages, trace, status, rejection>>

\* checkPackageJsonContent(content, localDirectory) up to the call of
\* checkPackageJson, after 'package.json' was emitted for filePath
CheckContent(f, filePath, content, localDirectory) ==
    LET tr == Append(trace, PackageJsonEvent(filePath))
        next == SetTop(stack, [f EXCEPT !.i = @ + 1])
        catch == Frame("checkPackageJsonContent", "", <<>>, localDirectory, <<>>,
                       content.json, "await", <<>>)
        call == Frame("checkPackageJson", content.json.name, <<>>, localDirectory,
                      <<>>, content.json, "start", <<>>)
        u == Unwind(Append(next, catch), failedPackages, tr, EmptyJson, "SyntaxError")
    IN  IF content.valid
        THEN /\ stack' = next \o <<catch, call>>
             /\ trace' = tr
             /\ UNCHANGED <<failedPackages, status, rejection>>
        ELSE /\ stack' = u.stack
             /\ trace' = u.trace
             /\ failedPackages' = u.failed
             /\ status' = IF u.rejection # "" THEN "rejected" ELSE status
             /\ rejection' = u.rejection

\* the second loop of checkLocalDirectory: one package.json announced, read
\* and handed to checkPackageJsonContent
CheckLocalPackageJson ==
    LET f == Top(stack)
        dir == f.files[f.i]
    IN  /\ status = "walking"
        /\ UNCHANGED <<prVars, fnVars, other>>
        /\ stack # <<>>
        /\ f.kind = "checkLocalDirectory"
        /\ f.loop = "check"
        /\ f.i <= Len(f.files)
        /\ CheckContent(f, Append(dir, "package.json"), ReadPackageJson(dir).file, dir)
        /\ UNCHANGED <<processedPackages, localPackages, config, greenLicenseExpr,
                       allowlistedLicenses, opts, runs>>

\* checkGitHubPR(repo, mergeCommitSha), up to the first package.json
CheckGitHubPR(mergeCommitSha) ==
    /\ CanStart
    /\ UNCHANGED <<prVars, fnVars, other>>
    /\ runs' = runs + 1
    /\ DoInit(getGitHubConfig(mergeCommitSha))
    /\ UNCHANGED opts
    /\ status' = "walking"
    /\ rejection' = ""
    /\ stack' = <<Frame("checkGitHubPR", "", <<>>, <<>>, <<>>, EmptyJson, "check",
                        getPackageJsonFiles(mergeCommitSha))>>
    /\ trace' = <<>>

\* the loop of checkGitHubPR: one package.json announced and handed to
\* checkPackageJsonContent
CheckPRPackageJson ==
    LET f == Top(stack)
        pj == f.files[f.i]
    IN  /\ status = "walking"
        /\ UNCHANGED <<prVars, fnVars, other>>
        /\ stack # <<>>
        /\ f.kind = "checkGitHubPR"
        /\ f.i <= Len(f.files)
        /\ CheckContent(f, pj.filePath, pj.content, <<>>)
        /\ UNCHANGED <<processedPackages, localPackages, config, greenLicenseExpr,
                       allowlistedLicenses, opts, runs>>

\* this.emit('end') at the end of an entry point
EmitEnd ==
    LET f == Top(stack)
    IN  /\ status = "walking"
        /\ UNCHANGED <<prVars, fnVars, other>>
        /\ Len(stack) = 1
        /\ \/ f.kind = "checkRemotePackage"
           \/ f.kind = "checkGitHubPR" /\ f.i > Len(f.files)
           \/ f.kind = "checkLocalDirectory" /\ f.loop = "check" /\ f.i > Len(f.files)
        /\ trace' = Append(trace, EndEvent)
        /\ stack' = <<>>
        /\ status' = "done"
        /\ UNCHANGED <<processedPackages, failedPackages, localPackages, config,
                       greenLicenseExpr, allowlistedLicenses, opts, runs, rejection>>

\* getPackageJson settles for the checkLicenses call on top: the manifest goes
\* to checkPackageJson, a failure to the catch clause
GetPackageJsonSettles ==
    LET f == Top(stack)
        res == getPackageJsonResult(f.packageName, f.versionSpec, f.localDirectory)
        call == Frame("checkPackageJson", f.packageName, <<>>, f.localDirectory,
                      f.parents, res.json, "start", <<>>)
    IN  /\ status = "walking"
        /\ UNCHANGED <<prVars, fnVars, other>>
        /\ stack # <<>>
        /\ f.kind = "checkLicenses"
        /\ f.loop = "fetching"
        /\ UNCHANGED <<processedPackages, localPackages, config, greenLicenseExpr,
                       allowlistedLicenses, opts, runs>>
        /\ IF res.ok
           THEN /\ stack' = Append(SetTop(stack, [f EXCEPT !.loop = "checking"]), call)
                /\ UNCHANGED <<failedPackages, trace, status, rejection>>
           ELSE Throw(stack, EmptyJson, "HTTPError")

\* packageName || json.name || 'undefined'
EffectiveName(packageName, json) ==
    IF packageName # "" THEN packageName
    ELSE IF json.name # "" THEN json.name
    ELSE "undefined"

\* an allow-listed manifest whose version is left as declared
WithValidVersionKept(json) == json

\* json.version = semver.valid(json.version) ? json.version : '0.0.0'
WithValidVersion(json) ==
    [json EXCEPT !.version = IF semverValid(@) THEN @ ELSE <<"0.0.0">>]

\* a checker that forgets to look the key up
IsProcessedNever(processed, packageAndVersion) == FALSE

\* this.processedPackages.has(packageAndVersion)
IsProcessed(processed, packageAndVersion) == packageAndVersion \in processed

\* a checker that never records a key
MarkProcessedForgets(processed, packageAndVersion) == processed

\* this.processedPackages.add(packageAndVersion)
MarkProcessed(processed, packageAndVersion) == processed \cup {packageAndVersion}

\* checkPackageJson from its first line to the call of checkLicensesForDeps:
\* validation, the processed check, the license check
CheckPackageJson ==
    LET f == Top(stack)
        packageName == EffectiveName(f.packageName, f.json)
        isAllowlisted == isPackageAllowlisted(config, packageName)
        json == IF isAllowlisted THEN WithValidVersion(f.json) ELSE f.json
        packageAndVersion == At(packageName, VersionString(json.version))
        license == getLicense(json)
    IN  /\ status = "walking"
        /\ UNCHANGED <<prVars, fnVars, other>>
        /\ stack # <<>>
        /\ f.kind = "checkPackageJson"
        /\ f.loop = "start"
        /\ UNCHANGED <<localPackages, config, greenLicenseExpr, allowlistedLicenses,
                       opts, runs>>
        /\ IF ~isAllowlisted /\ ~isPackageJson(f.json)
           THEN /\ Throw(stack, EmptyJson, "Invalid package.json")
                /\ UNCHANGED processedPackages
           ELSE IF IsProcessed(processedPackages, packageAndVersion)
           THEN /\ stack' = Pop(Pop(stack))
                /\ UNCHANGED <<processedPackages, failedPackages, trace, status, rejection>>
           ELSE /\ processedPackages' = MarkProcessed(processedPackages, packageAndVersion)
                /\ trace' =
                      IF ~isAllowlisted
                         /\ ~isGreenLicense(license, greenLicenseExpr, allowlistedLicenses)
                      THEN Append(trace, NonGreenLicense(packageName,
                                      VersionString(json.version), license, f.parents))
                      ELSE trace
                /\ stack' = SetTop(stack, [f EXCEPT !.packageName = packageName,
                                                     !.json = json,
                                                     !.key = packageAndVersion,
                                                     !.loop = "deps"])
                /\ UNCHANGED <<failedPackages, status, rejection>>

\* a walk that takes the dependency map from its last entry to its first
DepsOfReversed(f) ==
    LET deps == IF f.loop = "deps" THEN f.json.dependencies ELSE f.json.devDependencies
    IN  [k \in 1..Len(deps) |-> deps[Len(deps) + 1 - k]]

\* the dependency map a checkPackageJson call is walking
DepsOf(f) == IF f.loop = "deps" THEN f.json.dependencies ELSE f.json.devDependencies

\* one turn of the loop of checkLicensesForDeps, up to the await of its
\* checkLicenses call; after the last turn checkPackageJson goes on to the
\* devDependencies or returns
CheckLicensesForDeps ==
    LET f == Top(stack)
        deps == DepsOf(f)
        dep == deps[f.i]
        parents == ChildParents(f.parents, f.key)
        outcome == checkLicensesOutcome(dep, failedPackages, localPackages)
        next == SetTop(stack, [f EXCEPT !.i = @ + 1])
        call == Frame("checkLicenses", dep.pkg, dep.spec, f.localDirectory, parents,
                      EmptyJson, "fetching", <<>>)
    IN  /\ status = "walking"
        /\ UNCHANGED <<prVars, fnVars, other>>
        /\ stack # <<>>
        /\ f.kind = "checkPackageJson"
        /\ f.loop \in {"deps", "dev"}
        /\ UNCHANGED <<processedPackages, localPackages, config, greenLicenseExpr,
                       allowlistedLicenses, opts, runs>>
        /\ IF f.i > Len(deps)
           THEN /\ stack' = IF f.loop = "deps" /\ opts.dev
                            THEN SetTop(stack, [f EXCEPT !.loop = "dev", !.i = 1])
                            ELSE Pop(Pop(stack))
                /\ UNCHANGED <<failedPackages, trace, status, rejection>>
           ELSE CASE outcome = "throw" -> Throw(stack, EmptyJson, "TypeError")
                  [] outcome = "skip" ->
                        /\ stack' = next
                        /\ UNCHANGED <<failedPackages, trace, status, rejection>>
                  [] OTHER ->
                        /\ stack' = Append(next, call)
                        /\ trace' = trace \o
                                       getPackageJsonCall(dep, f.localDirectory, parents)
                        /\ UNCHANGED <<failedPackages, status, rejection>>

Next ==
    \/ \E pkg \in RemoteArgs, cfg \in Configs : CheckRemotePackage(pkg, cfg)
    \/ \E directory \in LocalDirectories, cfg \in Configs :
           CheckLocalDirectory(directory, cfg)
    \/ \E mergeCommitSha \in Snapshots : CheckGitHubPR(mergeCommitSha)
    \/ RegisterLocalPackage
    \/ CheckLocalPackageJson
    \/ CheckPRPackageJson
    \/ GetPackageJsonSettles
    \/ CheckPackageJson
    \/ CheckLicensesForDeps
    \/ EmitEnd

Spec == Init /\ [][Next]_vars

\* the fields of the instance the running call belongs to
ThisInstance ==
    [processedPackages |-> processedPackages, failedPackages |-> failedPackages,
     localPackages |-> localPackages, config |-> config,
     greenLicenseExpr |-> greenLicenseExpr,
     allowlistedLicenses |-> allowlistedLicenses]

\* the running call as it is put aside at an await; same: the two calls are
\* on one instance, whose fields stay where they are
Suspended(same, current) ==
    [status |-> status, current |-> current, same |-> same, stack |-> stack,
     trace |-> trace, rejection |-> rejection,
     instance |-> IF same THEN NewInstance ELSE ThisInstance]

\* the packages of the overlapping calls
OverlapArgs == {"dia", "foo", "ghost"}

\* the first of two calls: checkRemotePackage(name) on a new instance
FirstCall(name) ==
    /\ runs = 0
    /\ CheckRemotePackage([name |-> name, rawSpec |-> <<>>], NoConfig)

\* checkRemotePackage(name) called while the first call is waiting at an
\* await, on the same instance or on a second, new one: init and the call of
\* checkLicenses up to its first await
OverlappingCall(name, same) ==
    LET r == IF same
             THEN init(NoConfig, processedPackages, failedPackages, localPackages)
             ELSE init(NoConfig, {}, {}, {})
        dep == Dep(name, <<"latest">>)
        entry == Frame("checkRemotePackage", "", <<>>, <<>>, <<>>, EmptyJson, "await", <<>>)
        call == Frame("checkLicenses", dep.pkg, dep.spec, <<>>, <<>>, EmptyJson,
                      "fetching", <<>>)
    IN  /\ status = "walking"
        /\ other.status = "none"
        /\ other' = Suspended(same, 2)
        /\ runs' = runs + 1
        /\ config' = r.config
        /\ greenLicenseExpr' = r.greenLicenseExpr
        /\ allowlistedLicenses' = r.allowlistedLicenses
        /\ processedPackages' = r.processedPackages
        /\ failedPackages' = r.failedPackages
        /\ localPackages' = r.localPackages
        /\ status' = "walking"
        /\ rejection' = ""
        /\ stack' = <<entry, call>>
        /\ trace' = getPackageJsonCall(dep, <<>>, <<>>)
        /\ UNCHANGED <<opts, prVars, fnVars>>

\* the event loop runs a continuation of the other call
Switch ==
    /\ other.status = "walking"
    /\ other' = Suspended(other.same, 3 - other.current)
    /\ stack' = other.stack
    /\ trace' = other.trace
    /\ status' = other.status
    /\ rejection' = other.rejection
    /\ IF other.same
       THEN UNCHANGED <<processedPackages, failedPackages, localPackages, config,
                        greenLicenseExpr, allowlistedLicenses>>
       ELSE /\ processedPackages' = other.instance.processedPackages
            /\ failedPackages' = other.instance.failedPackages
            /\ localPackages' = other.instance.localPackages
            /\ config' = other.instance.config
            /\ greenLicenseExpr' = other.instance.greenLicenseExpr
            /\ allowlistedLicenses' = other.instance.allowlistedLicenses
    /\ UNCHANGED <<opts, runs, prVars, fnVars>>

NextOverlap ==
    \/ \E name \in OverlapArgs : FirstCall(name)
    \/ \E name \in OverlapArgs, same \in BOOLEAN : OverlappingCall(name, same)
    \/ Switch
    \/ GetPackageJsonSettles
    \/ CheckPackageJson
    \/ CheckLicensesForDeps
    \/ EmitEnd

\* one or two checkRemotePackage calls, the second made while the first is
\* in flight
SpecOverlap == Init /\ [][NextOverlap]_vars

\* the steps of a run in flight: the continuations of its awaits.  The event
\* loop runs every continuation that is ready, and every registry request
\* and file read settles.
Walk ==
    \/ RegisterLocalPackage
    \/ CheckLocalPackageJson
    \/ CheckPRPackageJson
    \/ GetPackageJsonSettles
    \/ CheckPackageJson
    \/ CheckLicensesForDeps
    \/ EmitEnd

\* the checker with a run in flight always taking its next step
SpecLive == Init /\ [][Next]_vars /\ WF_vars(Walk)

----------------------------------------------------------------------------
\* GitHubRepository.getPRCommits: the retry on an unset `mergeable` field

\* How many times to retry PR commit retrieval until giving up.
MAX_PR_COMMIT_RETRIES == 10

\* what GET pulls/<id> answers: mergeable is "true", "false" or "null" (not
\* computed yet); "" stands for an absent merge_commit_sha or head.sha
Answer(mergeable, mergeCommitSha, headSha) ==
    [mergeable |-> mergeable, merge_commit_sha |-> mergeCommitSha, head |-> headSha]

\* the answers of the mocked API, and a mergeable PR with any of the SHAs absent
Answers ==
    {Answer("null", "", ""), Answer("false", "deadbeef", "foobar"),
     Answer("false", "", "")}
    \cup {Answer("true", m, h) : m \in {"", "deadbeef"}, h \in {"", "foobar"}}

NoAnswer == [mergeable |-> "", merge_commit_sha |-> "", head |-> ""]

\* {mergeCommitSha, headCommitSha}
PRCommits(mergeCommitSha, headCommitSha) ==
    [mergeCommitSha |-> mergeCommitSha, headCommitSha |-> headCommitSha]

NoCommits == PRCommits("", "")

\* `Tried ${attemptCount} times but the mergeable field is not set. Giving up`
GivingUp(attemptCount) ==
    <<"Tried", attemptCount, "times but the mergeable field is not set. Giving up">>

\* a getPRCommits that looks for the HEAD commit SHA first
getPRCommitsOutcomeHeadFirst(answer, attemptCount) ==
    CASE answer.mergeable = "null" ->
             IF attemptCount > MAX_PR_COMMIT_RETRIES
             THEN [kind |-> "throw", error |-> GivingUp(attemptCount), value |-> NoCommits]
             ELSE [kind |-> "retry", error |-> <<>>, value |-> NoCommits]
      [] answer.mergeable # "true" ->
             [kind |-> "throw", error |-> <<"PR is not mergeable">>, value |-> NoCommits]
      [] answer.head = "" ->
             [kind |-> "throw", error |-> <<"HEAD commit SHA is not found">>,
              value |-> NoCommits]
      [] answer.merge_commit_sha = "" ->
             [kind |-> "throw", error |-> <<"Merge commit SHA is not found">>,
              value |-> NoCommits]
      [] OTHER ->
             [kind |-> "return", error |-> <<>>,
              value |-> PRCommits(answer.merge_commit_sha, answer.head)]

\* what one getPRCommits call does with the answer to its request
getPRCommitsOutcome(answer, attemptCount) ==
    CASE answer.mergeable = "null" ->
             IF attemptCount > MAX_PR_COMMIT_RETRIES
             THEN [kind |-> "throw", error |-> GivingUp(attemptCount), value |-> NoCommits]
             ELSE [kind |-> "retry", error |-> <<>>, value |-> NoCommits]
      [] answer.mergeable # "true" ->
             [kind |-> "throw", error |-> <<"PR is not mergeable">>, value |-> NoCommits]
      [] answer.merge_commit_sha = "" ->
             [kind |-> "throw", error |-> <<"Merge commit SHA is not found">>,
              value |-> NoCommits]
      [] answer.head = "" ->
             [kind |-> "throw", error |-> <<"HEAD commit SHA is not found">>,
              value |-> NoCommits]
      [] OTHER ->
             [kind |-> "return", error |-> <<>>,
              value |-> PRCommits(answer.merge_commit_sha, answer.head)]

\* a retry that does not count
NextAttemptSame(attemptCount) == attemptCount

\* attemptCount + 1, the argument of the call made by the timer
NextAttempt(attemptCount) == attemptCount + 1

\* a getPRCommits call that has issued its request; state is the state of the
\* promise it returned: "requesting" (awaiting the answer), "waiting" (the
\* timer is set), "awaiting" (the timer's callback awaits the next call),
\* "resolved", "rejected", or "pending" (nothing is left that could settle it)
PRCall(attemptCount) ==
    [attemptCount |-> attemptCount, state |-> "requesting", answer |-> NoAnswer,
     value |-> NoCommits, error |-> <<>>]

\* the attempt numbers a caller may start from (the default is 1)
StartAttempts == 1..(MAX_PR_COMMIT_RETRIES + 1)

\* repo.getPRCommits(prId, attemptCount), up to the await of apiGet
GetPRCommits(attemptCount) ==
    /\ prCalls = <<>>
    /\ prCalls' = <<PRCall(attemptCount)>>
    /\ prRequests' = prRequests + 1
    /\ UNCHANGED <<prUnhandled, checkerVars, fnVars>>

\* the answer to the request of the latest call arrives: the call throws,
\* returns the commits or sets the timer
AnswerArrives(answer) ==
    LET n == Len(prCalls)
        call == prCalls[n]
        outcome == getPRCommitsOutcome(answer, call.attemptCount)
    IN  /\ prCalls # <<>>
        /\ call.state = "requesting"
        /\ prCalls' =
              [prCalls EXCEPT ![n] =
                  [call EXCEPT !.answer = answer,
                               !.state = CASE outcome.kind = "throw"  -> "rejected"
                                           [] outcome.kind = "return" -> "resolved"
                                           [] OTHER                   -> "waiting",
                               !.value = outcome.value,
                               !.error = outcome.error]]
        /\ UNCHANGED <<prRequests, prUnhandled, checkerVars, fnVars>>

\* the timer of the latest call fires: its callback calls getPRCommits with
\* the next attempt number and awaits it
TimerFires ==
    LET n == Len(prCalls)
    IN  /\ prCalls # <<>>
        /\ prCalls[n].state = "waiting"
        /\ prCalls' = Append([prCalls EXCEPT ![n].state = "awaiting"],
                             PRCall(NextAttempt(prCalls[n].attemptCount)))
        /\ prRequests' = prRequests + 1
        /\ UNCHANGED <<prUnhandled, checkerVars, fnVars>>

\* the callback of call n goes on after the call it awaited has settled:
\* resolve(value) when that call returned; when it threw, the callback's own
\* promise rejects, which nobody handles, and resolve is never called
CallbackResumes(n) ==
    /\ n < Len(prCalls)
    /\ prCalls[n].state = "awaiting"
    /\ prCalls[n + 1].state \in {"resolved", "rejected"}
    /\ IF prCalls[n + 1].state = "resolved"
       THEN /\ prCalls' = [prCalls EXCEPT ![n].state = "resolved",
                                          ![n].value = prCalls[n + 1].value]
            /\ UNCHANGED prUnhandled
       ELSE /\ prCalls' = [prCalls EXCEPT ![n].state = "pending"]
            /\ prUnhandled' = Append(prUnhandled, prCalls[n + 1].error)
    /\ UNCHANGED <<prRequests, checkerVars, fnVars>>

NextPR ==
    \/ \E attemptCount \in StartAttempts : GetPRCommits(attemptCount)
    \/ \E answer \in Answers : AnswerArrives(answer)
    \/ TimerFires
    \/ \E n \in DOMAIN prCalls : CallbackResumes(n)

SpecPR == Init /\ [][NextPR]_vars

----------------------------------------------------------------------------
\* The checker's functions called one at a time: init, isGreenLicense,
\* getLicense and ensurePackageJson

\* the configurations given to init: none, the lists of the tests, an empty
\* list, names that need correcting, and lists with NPM's UNLICENSED
RuleSetConfigs ==
    {NoConfig,
     Cfg(TRUE, <<<<"Foo License">>, <<"EVIL">>>>, <<>>),
     Cfg(TRUE, <<<<"private">>>>, <<>>),
     Cfg(TRUE, <<<<"ISC">>>>, <<>>),
     Cfg(TRUE, <<>>, <<>>),
     Cfg(TRUE, <<<<"Apache 2">>, <<"MIT">>, <<"Foo License">>, <<"GPLv3">>>>, <<>>),
     Cfg(TRUE, <<<<"UNLICENSED">>, <<"MIT">>>>, <<>>),
     Cfg(TRUE, <<<<"UNLICENCED">>, <<"EVIL">>>>, <<>>)}

\* the license strings given to isGreenLicense; <<>> is null
LicenseNames ==
    {<<>>, <<"MIT">>, <<"ISC">>, <<"Apache-2.0">>, <<"Apache 2">>, <<"GPLv3">>,
     <<"GPL-3.0">>, <<"EVIL">>, <<"EVIL-MADE-UP-LICENSE">>, <<"Foo License">>,
     <<"private">>, <<"UNLICENSED">>, <<"UNLICENCED">>}

\* init has run and has built the rule set
RuleSetIsBuilt == fnCall.fn \in {"init", "isGreenLicense"}

\* no function was called yet; getLicense and ensurePackageJson read nothing
\* of the instance and are called on a new one
IsNewInstance == fnCall.fn = ""

\* this.init(cfg)
InitCall(cfg) ==
    /\ IsNewInstance \/ RuleSetIsBuilt
    /\ DoInit(cfg)
    /\ fnCall' = [fn |-> "init", arg |-> cfg]
    /\ fnResult' = <<>>
    /\ UNCHANGED <<opts, stack, status, runs, rejection, trace, prVars, other>>

\* this.isGreenLicense(license) under the rule set init has built
IsGreenLicenseCall(license) ==
    /\ RuleSetIsBuilt
    /\ fnCall' = [fn |-> "isGreenLicense", arg |-> license]
    /\ fnResult' = isGreenLicense(license, greenLicenseExpr, allowlistedLicenses)
    /\ UNCHANGED <<checkerVars, prVars>>

\* Longest legacy license array given to getLicense.
MaxTypes == 3

\* the `type` of a legacy license object: absent, '', or a name
LegacyTypes == {<<>>, <<"">>, <<"MIT">>, <<"ISC">>}

\* the license arrays of at most n items
LicenseArrays(n) == {LicArr(types) : types \in UNION {[1..k -> LegacyTypes] : k \in 0..n}}

\* the manifests given to getLicense
LicensedManifests ==
    {[Pkg("x", V("1.0.0"), license, <<>>, <<>>)
         EXCEPT !.licenses = licenses, !.private = private] :
        license \in {NoLicense, LicStr("MIT"), [LicStr("MIT") EXCEPT !.str = <<>>],
                     LicObj(<<"MIT">>), LicObj(<<"">>)},
        licenses \in LicenseArrays(MaxTypes) \cup {NoLicense},
        private \in BOOLEAN}

\* this.getLicense(pkgJson)
GetLicenseCall(pkgJson) ==
    /\ IsNewInstance
    /\ fnCall' = [fn |-> "getLicense", arg |-> pkgJson]
    /\ fnResult' = getLicense(pkgJson)
    /\ UNCHANGED <<checkerVars, prVars>>

\* the raw manifests given to ensurePackageJson
RawManifests ==
    {[Pkg(name, version, license, deps, devDeps)
         EXCEPT !.licenses = licenses, !.private = private] :
        name \in {"", "x"}, version \in {<<>>, V("1.0.0")},
        license \in {NoLicense, LicStr("MIT"), LicObj(<<>>)},
        licenses \in {NoLicense, LicArr(<<<<"MIT">>>>), LicArr(<<<<"MIT">>, <<>>>>)},
        deps \in {<<>>, <<Dep("bar", Caret("4.5.0"))>>, <<BadDep("baz")>>},
        devDeps \in {<<>>, <<BadDep("baz")>>},
        private \in BOOLEAN}

\* ensurePackageJson(obj): it returns obj or throws
EnsurePackageJsonCall(obj) ==
    /\ IsNewInstance
    /\ fnCall' = [fn |-> "ensurePackageJson", arg |-> obj]
    /\ fnResult' = IF isPackageJson(obj) THEN <<"returned">>
                   ELSE <<"Invalid package.json">>
    /\ UNCHANGED <<checkerVars, prVars>>

----------------------------------------------------------------------------
\* The configuration loader (config.ts)

\* a property of the parsed configuration: absent, an array of strings, or
\* anything else that is truthy (an array of numbers, an object, a string)
Absent == [kind |-> "undefined", items |-> <<>>]

Strings(items) == [kind |-> "strings", items |-> items]

NotStrings == [kind |-> "other", items |-> <<>>]

\* !obj || (Array.isArray(obj) && obj.every(x => typeof x === 'string'))
isStringArray(obj) == obj.kind \in {"undefined", "strings"}

\* an isConfig that looks at greenLicenses only
isConfigGreenOnly(obj) == isStringArray(obj.greenLicenses)

\* isConfig(obj)
isConfig(obj) ==
    isStringArray(obj.greenLicenses) /\ isStringArray(obj.packageAllowlist)

\* the Config a parsed object is used as
AsConfig(obj) ==
    Cfg(obj.greenLicenses.kind = "strings",
        [k \in 1..Len(obj.greenLicenses.items) |-> <<obj.greenLicenses.items[k]>>],
        obj.packageAllowlist.items)

\* js-green-licenses.json as the loader finds it: code is the error of the
\* read ("" when the file was read), isJson whether JSON.parse accepts the
\* content of the file, obj what it parses to
ConfigFile(code, isJson, greenLicenses, packageAllowlist) ==
    [code |-> code, isJson |-> isJson,
     obj |-> [greenLicenses |-> greenLicenses, packageAllowlist |-> packageAllowlist]]

ConfigFiles ==
    {ConfigFile("ENOENT", FALSE, Absent, Absent),
     ConfigFile("EACCES", FALSE, Absent, Absent),
     ConfigFile("", FALSE, Absent, Absent)}
    \cup {ConfigFile("", TRUE, green, allow) :
             green \in {Absent, NotStrings, Strings(<<>>), Strings(<<"EVIL">>),
                        Strings(<<"Foo License", "MIT">>)},
             allow \in {Absent, NotStrings, Strings(<<>>), Strings(<<"bar">>)}}

\* what a loader returns (isNull: it returned null) and whether it wrote to
\* console.error
Loaded(cfg) == [isNull |-> FALSE, config |-> cfg, logged |-> FALSE]

NoOverride(logged) == [isNull |-> TRUE, config |-> NoConfig, logged |-> logged]

\* getLocalConfig(directory), given the file of that directory
getLocalConfig(file) ==
    IF file.code # "" THEN NoOverride(file.code # "ENOENT")
    ELSE IF ~file.isJson \/ ~isConfig(file.obj) THEN NoOverride(TRUE)
    ELSE Loaded(AsConfig(file.obj))

\* getGitHubConfig(repo, commitSha), given what getFileContent has for the
\* file: null when the request failed
getGitHubConfigOf(file) ==
    IF file.code # "" THEN NoOverride(FALSE)
    ELSE IF ~file.isJson \/ ~isConfig(file.obj) THEN NoOverride(TRUE)
    ELSE Loaded(AsConfig(file.obj))

\* this.init(await config.getLocalConfig(directory)), the first line of
\* checkLocalDirectory and of checkRemotePackage
InitFromLocalConfig(file) ==
    LET r == getLocalConfig(file)
    IN  /\ fnCall.fn \in {"", "init", "getLocalConfig", "getGitHubConfig"}
        /\ DoInit(r.config)
        /\ fnCall' = [fn |-> "getLocalConfig", arg |-> file]
        /\ fnResult' = r
        /\ UNCHANGED <<opts, stack, status, runs, rejection, trace, prVars, other>>

\* this.init(await config.getGitHubConfig(repo, mergeCommitSha)), the first
\* line of checkGitHubPR
InitFromGitHubConfig(file) ==
    LET r == getGitHubConfigOf(file)
    IN  /\ fnCall.fn \in {"", "init", "getLocalConfig", "getGitHubConfig"}
        /\ DoInit(r.config)
        /\ fnCall' = [fn |-> "getGitHubConfig", arg |-> file]
        /\ fnResult' = r
        /\ UNCHANGED <<opts, stack, status, runs, rejection, trace, prVars, other>>

----------------------------------------------------------------------------
\* The package.json files of a commit (github.ts)

\* Longest listing of the packages/ directory.
MaxEntries == 3

\* what the contents API answers for <dir>/package.json: error: the request
\* fails (no such file); text: a file with content; empty: a file of no
\* bytes; undefined: a single response with no content field; multiple: an
\* array (the path is a directory)
FileAnswers == {"error", "text", "empty", "undefined", "multiple"}

\* the names of the entries of packages/, by their place in the listing
EntryNames == <<"foo", "bar", "baz", "qux", "quux">>

\* an entry of the listing of packages/ with the answer for its package.json
ListingEntry(type, k, answer) == [type |-> type, name |-> EntryNames[k], answer |-> answer]

\* the listings of packages/ of at most n entries
Listings(n) ==
    UNION {{[k \in 1..len |-> ListingEntry(pick[k][1], k, pick[k][2])] :
               pick \in [1..len -> ({<<"file", "error">>}
                                       \cup ({"dir"} \X FileAnswers))]} :
           len \in 0..n}

\* a commit of a repository: the answer for the top-level package.json and
\* the answer for contents/packages (failed: the request fails; single: one
\* response, packages is a file; array: the listing)
Repositories ==
    {[top |-> top, packages |-> packages, entries |-> entries] :
        top \in FileAnswers,
        packages \in {"failed", "single", "array"},
        entries \in Listings(MaxEntries)}

\* the commits the listing is computed for; a listing is given only where
\* contents/packages answers with one
Commits == {r \in Repositories : r.packages # "array" => r.entries = <<>>}

\* the decoded content of the file named tag
ContentOf(tag) == <<tag, "package.json">>

\* getFileContent(commitSha, path): null, the decoded content, or an error
getFileContent(answer, tag) ==
    CASE answer = "error"     -> [threw |-> FALSE, isNull |-> TRUE,  content |-> <<>>]
      [] answer = "multiple"  -> [threw |-> TRUE,  isNull |-> FALSE, content |-> <<>>]
      [] answer = "undefined" -> [threw |-> TRUE,  isNull |-> FALSE, content |-> <<>>]
      [] answer = "empty"     -> [threw |-> FALSE, isNull |-> FALSE, content |-> <<>>]
      [] OTHER                -> [threw |-> FALSE, isNull |-> FALSE,
                                  content |-> ContentOf(tag)]

\* {filePath, content}
PackageJsonFile(dir, content) ==
    [filePath |-> dir \o <<"package.json">>, content |-> content]

\* getSinglePackageJson(dir, commitSha): the files found, none or one
getSinglePackageJson(dir, answer, tag) ==
    LET c == getFileContent(answer, tag)
    IN  IF c.threw THEN [threw |-> TRUE, files |-> <<>>]
        ELSE IF c.isNull \/ c.content = <<>> THEN [threw |-> FALSE, files |-> <<>>]
        ELSE [threw |-> FALSE, files |-> <<PackageJsonFile(dir, c.content)>>]

RECURSIVE PackagesLoop(_, _)
\* the for loop over the listing of packages/, from the files found so far
PackagesLoop(entries, packageJsons) ==
    IF entries = <<>> THEN [threw |-> FALSE, files |-> packageJsons]
    ELSE LET entry == Head(entries)
         IN  IF entry.type = "dir" /\ entry.name # ""
             THEN LET pj == getSinglePackageJson(<<"packages", entry.name>>,
                                                 entry.answer, entry.name)
                  IN  IF pj.threw THEN [threw |-> TRUE, files |-> <<>>]
                      ELSE PackagesLoop(Tail(entries), packageJsons \o pj.files)
             ELSE PackagesLoop(Tail(entries), packageJsons)

\* getPackageJsonFiles(commitSha) on the commit repo
getPackageJsonFilesOf(repo) ==
    LET pj == getSinglePackageJson(<<>>, repo.top, "top-level")
    IN  IF pj.threw THEN [threw |-> TRUE, files |-> <<>>]
        ELSE IF repo.packages = "failed" THEN [threw |-> FALSE, files |-> pj.files]
        ELSE IF repo.packages = "single" THEN [threw |-> FALSE, files |-> pj.files]
        ELSE PackagesLoop(repo.entries, pj.files)

\* repo.getPackageJsonFiles(commitSha)
GetPackageJsonFilesCall(repo) ==
    /\ IsNewInstance
    /\ fnCall' = [fn |-> "getPackageJsonFiles", arg |-> repo]
    /\ fnResult' = getPackageJsonFilesOf(repo)
    /\ UNCHANGED <<checkerVars, prVars>>

----------------------------------------------------------------------------
\* The local-package lookup of the checker revision src/src/checker.ts

\* the characters of the version 1.0.0
ExactVersion == <<"1", ".", "0", ".", "0">>

\* the characters of the version 0.5.0-rc.0
PrereleaseVersion == <<"0", ".", "5", ".", "0", "-", "r", "c", ".", "0">>

\* the version specifiers of an edge, character by character
VersionSpecs ==
    {ExactVersion, <<"^">> \o ExactVersion, <<"~">> \o ExactVersion,
     <<"^">> \o PrereleaseVersion, <<"~">> \o PrereleaseVersion,
     PrereleaseVersion, <<"*">>, <<>>}

\* this.localPackages of a run that has registered sub@1.0.0
RegisteredLocally == {<<"sub", ExactVersion>>}

\* versionSpec.replace(/^[^~]/, ''): the first character is removed unless
\* it is a tilde
versionOf(versionSpec) ==
    IF versionSpec # <<>> /\ Head(versionSpec) # "~"
    THEN Tail(versionSpec)
    ELSE versionSpec

\* checkLicenses of this revision up to its first await, with nothing failed
checkLicensesLookup(packageName, versionSpec, local) ==
    IF <<packageName, versionOf(versionSpec)>> \in local THEN "skip" ELSE "await"

\* this.checkLicenses('sub', versionSpec) in this revision
CheckLicensesLookupCall(versionSpec) ==
    /\ IsNewInstance
    /\ fnCall' = [fn |-> "checkLicenses", arg |-> versionSpec]
    /\ fnResult' = [version |-> versionOf(versionSpec),
                    outcome |-> checkLicensesLookup("sub", versionSpec,
                                                    RegisteredLocally)]
    /\ UNCHANGED <<checkerVars, prVars>>

NextFn ==
    \/ \E cfg \in RuleSetConfigs : InitCall(cfg)
    \/ \E license \in LicenseNames : IsGreenLicenseCall(license)
    \/ \E pkgJson \in LicensedManifests : GetLicenseCall(pkgJson)
    \/ \E obj \in RawManifests : EnsurePackageJsonCall(obj)
    \/ \E file \in ConfigFiles : InitFromLocalConfig(file)
    \/ \E file \in ConfigFiles : InitFromGitHubConfig(file)
    \/ \E repo \in Commits : GetPackageJsonFilesCall(repo)
    \/ \E versionSpec \in VersionSpecs : CheckLicensesLookupCall(versionSpec)

SpecFn == Init /\ [][NextFn]_vars

----------------------------------------------------------------------------
\* Reading the trace of a run

IsFinding(e) == e.type = "non-green-license"

IsError(e) == e.type = "error"

\* a call of the Metadata Source: the registry or a file: dependency's file
IsFetch(e) == e.type \in {"request", "read"}

\* what the Metadata Source answers to the fetch e
ResultOf(e) ==
    IF e.type = "read"
    THEN LET r == ReadPackageJson(Dirname(e.filePath))
         IN  [ok |-> r.exists /\ r.file.valid, json |-> r.file.json]
    ELSE packageJson(e.packageName, e.version)

\* the resolved name@version of the fetch e
ResolvedKey(e) == At(e.packageName, VersionString(ResultOf(e).json.version))

\* the fetch e has settled
Settled(k) ==
    k < Len(trace) \/ stack = <<>> \/ Top(stack).kind # "checkLicenses"
    \/ Top(stack).loop # "fetching"

----------------------------------------------------------------------------
\* C1: within a run a non-green-license Finding is emitted at most once per
\* resolved name@version; the key of a Finding is in the processed set, and
\* the Finding carries the ancestor chain of the first fetch that resolved to
\* a valid manifest of that key.
C1_FindingOncePerKey ==
    \A i \in DOMAIN trace :
        IsFinding(trace[i]) =>
            /\ \A j \in DOMAIN trace :
                   (/\ IsFinding(trace[j])
                    /\ trace[j].packageName = trace[i].packageName
                    /\ trace[j].version = trace[i].version) => j = i
            /\ At(trace[i].packageName, trace[i].version) \in processedPackages
            /\ (i > 1 /\ IsFetch(trace[i - 1])) =>
                   /\ trace[i - 1].packageName = trace[i].packageName
                   /\ trace[i - 1].parentPackages = trace[i].parentPackages
                   /\ \A a \in 1..(i - 2) :
                          ~(/\ IsFetch(trace[a])
                            /\ ResultOf(trace[a]).ok
                            /\ isPackageJson(ResultOf(trace[a]).json)
                            /\ ResolvedKey(trace[a]) =
                                   At(trace[i].packageName, trace[i].version))

\* a finished run in which two fetches with different ancestor chains
\* resolved to the same key and the one Finding carries the first chain
C1_Witness ==
    /\ status = "done"
    /\ \E i, j, k \in DOMAIN trace :
           /\ i < k /\ k < j
           /\ IsFetch(trace[i]) /\ IsFetch(trace[j]) /\ IsFinding(trace[k])
           /\ ResultOf(trace[i]).ok /\ ResultOf(trace[j]).ok
           /\ ResolvedKey(trace[i]) = ResolvedKey(trace[j])
           /\ ResolvedKey(trace[i]) = At(trace[k].packageName, trace[k].version)
           /\ trace[i].parentPackages # trace[j].parentPackages
           /\ trace[k].parentPackages = trace[i].parentPackages

----------------------------------------------------------------------------
\* The manifests behind the keys of a run

Last(s) == s[Len(s)]

\* s is a prefix of t
IsPrefix(s, t) == Len(s) <= Len(t) /\ SubSeq(t, 1, Len(s)) = s

\* the root manifests of the local directories and of the pull requests
RootManifests ==
    {Files[k].file.json : k \in {n \in 1..Len(Files) : Files[n].file.valid}}
    \cup UNION {{getPackageJsonFiles(c)[k].content.json :
                    k \in {n \in 1..Len(getPackageJsonFiles(c)) :
                              getPackageJsonFiles(c)[n].content.valid}} :
                c \in Snapshots}

\* the manifest a package name stands for in the registry or on disk
ManifestOf(name) ==
    IF name \in DOMAIN Published THEN Published[name]
    ELSE IF \E m \in RootManifests : m.name = name
         THEN CHOOSE m \in RootManifests : m.name = name
         ELSE EmptyJson

\* the dependency edges of a manifest in the order of the walk
EdgesOf(json) ==
    json.dependencies \o (IF opts.dev THEN json.devDependencies ELSE <<>>)

\* the place of the edge requested by e among the edges of its parent, 0 if
\* the parent does not declare it
EdgeIndex(e) ==
    LET edges == EdgesOf(ManifestOf(Last(e.parentPackages)[1]))
        at == {k \in 1..Len(edges) :
                  edges[k].pkg = e.packageName /\ edges[k].spec = e.version}
    IN  IF at = {} THEN 0 ELSE CHOOSE k \in at : \A n \in at : k <= n

----------------------------------------------------------------------------
\* C2 as stated: within a run the metadata of a resolved name@version is
\* fetched exactly once, i.e. no two successful fetches of a run resolve to
\* the same key.
C2_FetchOncePerKey ==
    \A i, j \in DOMAIN trace :
        (/\ IsFetch(trace[i]) /\ IsFetch(trace[j])
         /\ ResultOf(trace[i]).ok /\ ResultOf(trace[j]).ok
         /\ ResolvedKey(trace[i]) = ResolvedKey(trace[j])) => i = j

\* C2: within a run a fetch is issued for every requested edge that is not
\* skipped, so a key reached by several edges is fetched once per edge; what
\* happens once per resolved name@version is the walk of its dependencies:
\* all fetches below one key carry the same ancestor chain, and no edge of
\* that chain is fetched twice.
C2_ExpandedOncePerKey ==
    \A i, j \in DOMAIN trace :
        (/\ IsFetch(trace[i]) /\ IsFetch(trace[j])
         /\ trace[i].parentPackages # <<>> /\ trace[j].parentPackages # <<>>
         /\ Last(trace[i].parentPackages) = Last(trace[j].parentPackages)) =>
            /\ trace[i].parentPackages = trace[j].parentPackages
            /\ (/\ trace[i].packageName = trace[j].packageName
                /\ trace[i].version = trace[j].version) => i = j

\* a finished run in which one key was fetched through two edges and its
\* dependencies were fetched below the first one only
C2_Witness ==
    /\ status = "done"
    /\ \E i, j, k \in DOMAIN trace :
           /\ i < k /\ k < j
           /\ IsFetch(trace[i]) /\ IsFetch(trace[j]) /\ IsFetch(trace[k])
           /\ ResultOf(trace[i]).ok /\ ResultOf(trace[j]).ok
           /\ ResolvedKey(trace[i]) = ResolvedKey(trace[j])
           /\ trace[i].version # trace[j].version
           /\ trace[k].parentPackages =
                  Append(trace[i].parentPackages, ResolvedKey(trace[i]))
           /\ \A n \in DOMAIN trace :
                  (IsFetch(trace[n]) /\ trace[n].parentPackages # <<>>
                   /\ Last(trace[n].parentPackages) = ResolvedKey(trace[i])) => n < j

----------------------------------------------------------------------------
\* the positions of the checkPackageJson calls on the stack below position p
CallsBelow(p) == {q \in 1..(p - 1) : stack[q].kind = "checkPackageJson"}

RECURSIVE PathBelow(_)
\* the keys of the checkPackageJson calls below position p, the root first
PathBelow(p) ==
    IF CallsBelow(p) = {} THEN <<>>
    ELSE LET q == CHOOSE x \in CallsBelow(p) : \A y \in CallsBelow(p) : y <= x
         IN  Append(PathBelow(q), stack[q].key)

\* the call at position p is for a root manifest or for the seed package
IsRootCall(p) ==
    \/ stack[p - 1].kind = "checkPackageJsonContent"
    \/ p = 3 /\ stack[1].kind = "checkRemotePackage"

\* C3: the parentPackages of a Finding are the resolved name@version keys of
\* the calls on the walk's path from the root down to the parent of the
\* flagged package, the root first; the chain is empty for a root manifest of
\* a local or pull-request run and for the seed package of a remote run.
C3_ChainIsPath ==
    \A p \in DOMAIN stack :
        (stack[p].kind = "checkPackageJson" /\ stack[p].loop # "start") =>
            /\ \A q \in CallsBelow(p) : stack[q].loop # "start"
            /\ stack[p].parents = PathBelow(p)
            /\ IsRootCall(p) => stack[p].parents = <<>>
            /\ \A i \in DOMAIN trace :
                   (/\ IsFinding(trace[i])
                    /\ At(trace[i].packageName, trace[i].version) = stack[p].key) =>
                       /\ trace[i].parentPackages = PathBelow(p)
                       /\ IsRootCall(p) <=> trace[i].parentPackages = <<>>

\* a Finding two levels below the seed package, its call still on the stack
C3_Witness ==
    \E p \in DOMAIN stack, i \in DOMAIN trace :
        /\ stack[p].kind = "checkPackageJson" /\ stack[p].loop # "start"
        /\ IsFinding(trace[i])
        /\ At(trace[i].packageName, trace[i].version) = stack[p].key
        /\ Len(trace[i].parentPackages) = 2
        /\ trace[i].parentPackages[1] # trace[i].parentPackages[2]
        /\ Cardinality(CallsBelow(p)) = 2

----------------------------------------------------------------------------
\* an event of the walk below a root: a fetch, a Finding or an 'error'
IsWalkEvent(e) == IsFetch(e) \/ IsFinding(e) \/ IsError(e)

\* the registry requests of the run, as `name@versionSpec`, in order
Requested ==
    LET reqs == SelectSeq(trace, LAMBDA e : e.type = "request")
    IN  [k \in 1..Len(reqs) |-> At(reqs[k].packageName, reqs[k].version)]

\* the event e is the Finding or the 'error' of the edge fetched by f, or an
\* event of the walk below that edge
BelongsToEdge(e, f) ==
    LET c == f.parentPackages
    IN  /\ IsPrefix(c, e.parentPackages)
        /\ IF Len(e.parentPackages) = Len(c)
           THEN ~IsFetch(e) /\ e.packageName = f.packageName
           ELSE e.parentPackages[Len(c) + 1][1] = f.packageName

\* C4: the walk is depth-first, in declared order and ancestors-first.  The
\* edges of one manifest are fetched in the order of its dependency map
\* (dependencies, then devDependencies); everything between the fetches of
\* two sibling edges lies below their parent, and once the later sibling is
\* fetched nothing more happens for the earlier edge or below it; and the
\* Finding of a package precedes every fetch, Finding and 'error' below it.
C4_DepthFirstDeclaredOrder ==
    /\ \A i, j \in DOMAIN trace :
           (/\ i < j
            /\ IsFetch(trace[i]) /\ IsFetch(trace[j])
            /\ trace[i].parentPackages # <<>>
            /\ trace[i].parentPackages = trace[j].parentPackages) =>
               /\ 0 < EdgeIndex(trace[i])
               /\ EdgeIndex(trace[i]) < EdgeIndex(trace[j])
               /\ \A k \in (i + 1)..(j - 1) :
                      IsWalkEvent(trace[k]) =>
                          IsPrefix(trace[i].parentPackages, trace[k].parentPackages)
               /\ \A k \in (j + 1)..Len(trace) :
                      IsWalkEvent(trace[k]) => ~BelongsToEdge(trace[k], trace[i])
    /\ \A i, k \in DOMAIN trace :
           (/\ IsFinding(trace[i]) /\ IsWalkEvent(trace[k])
            /\ \E n \in DOMAIN trace[k].parentPackages :
                   trace[k].parentPackages[n] =
                       At(trace[i].packageName, trace[i].version)) => i < k
    /\ (status = "done" /\ Len(Requested) > 0
        /\ Requested[1] = At("foo", V("latest"))) =>
           Requested = <<At("foo", V("latest")), At("bar", Caret("4.5.0"))>>

\* a finished run that fetched three sibling edges in declared order, with
\* the walks below the first two in between and a Finding below the first one
C4_Witness ==
    /\ status = "done"
    /\ \E i, j, k, n \in DOMAIN trace :
           /\ i < n /\ n < j /\ j < k
           /\ IsFetch(trace[i]) /\ IsFetch(trace[j]) /\ IsFetch(trace[k])
           /\ trace[i].parentPackages # <<>>
           /\ trace[i].parentPackages = trace[j].parentPackages
           /\ trace[j].parentPackages = trace[k].parentPackages
           /\ EdgeIndex(trace[i]) = 1 /\ EdgeIndex(trace[j]) = 2
           /\ EdgeIndex(trace[k]) = 3
           /\ IsFinding(trace[n])
           /\ Len(trace[n].parentPackages) > Len(trace[i].parentPackages)
           /\ BelongsToEdge(trace[n], trace[i])

\* a finished remote run of foo: foo@latest, then bar@^4.5.0, were requested
C4_FooThenBar ==
    /\ status = "done"
    /\ Requested = <<At("foo", V("latest")), At("bar", Caret("4.5.0"))>>

----------------------------------------------------------------------------
\* the errors an entry point rejects with before the walk begins
ArgumentErrors == {"Unsupported package spec", "Invalid package spec"}

\* C5: a failed fetch or an invalid manifest never halts the walk; whatever
\* the entry point, the graph and the listeners, a run that has begun its
\* walk is not rejected (it goes on to the remaining siblings and to 'end').
C5_ErrorsNeverHaltTheWalk == status = "rejected" => rejection \in ArgumentErrors

----------------------------------------------------------------------------
\* the run in flight is a remote-package run
IsRemoteRun == trace # <<>> /\ trace[1].type = "request" /\ trace[1].parentPackages = <<>>

\* an 'error' event of the catch clause of checkLicenses: the error of an edge
IsEdgeError(e) == IsError(e) /\ (e.parentPackages # <<>> \/ IsRemoteRun)

\* C6: once packageName@versionSpec has failed in a run it stays in the
\* failed set for the rest of the run, no fetch is issued for that spec
\* after the failure, and no second 'error' event is emitted for it.
C6_FailedSpecNotRetried ==
    \A i \in DOMAIN trace :
        IsEdgeError(trace[i]) =>
            /\ At(trace[i].packageName, trace[i].version) \in failedPackages
            /\ \A j \in DOMAIN trace :
                   (/\ j # i
                    /\ trace[j].packageName = trace[i].packageName
                    /\ trace[j].version = trace[i].version) =>
                       /\ ~IsEdgeError(trace[j])
                       /\ IsFetch(trace[j]) => j < i

\* a finished run in which a spec failed once and two processed packages
\* declare an edge with that spec
C6_Witness ==
    /\ status = "done"
    /\ \E i \in DOMAIN trace, k1, k2 \in processedPackages :
           /\ IsEdgeError(trace[i])
           /\ k1 # k2
           /\ \A k \in {k1, k2} :
                  \E n \in DOMAIN EdgesOf(ManifestOf(k[1])) :
                      /\ EdgesOf(ManifestOf(k[1]))[n].pkg = trace[i].packageName
                      /\ EdgesOf(ManifestOf(k[1]))[n].spec = trace[i].version
                      /\ EdgesOf(ManifestOf(k[1]))[n].isString

----------------------------------------------------------------------------
\* C7: when the fetch of an edge fails, the next thing emitted is an 'error'
\* event with the package name, the version specifier as requested and the
\* ancestor chain of the edge; it is the only 'error' event for that edge,
\* no Finding is emitted for the edge and nothing is walked below it.
C7_FetchFailureEvent ==
    \A i \in DOMAIN trace :
        (IsFetch(trace[i]) /\ ~ResultOf(trace[i]).ok /\ Settled(i)) =>
            /\ i < Len(trace)
            /\ trace[i + 1] = CheckError(trace[i].packageName, trace[i].version,
                                         trace[i].parentPackages)
            /\ \A j \in DOMAIN trace :
                   (j > i /\ IsWalkEvent(trace[j]) /\ BelongsToEdge(trace[j], trace[i])) =>
                       j = i + 1

\* a failed fetch of a range below a root, followed by its 'error' event and
\* by the fetch of the next sibling
C7_Witness ==
    \E i \in DOMAIN trace :
        /\ IsFetch(trace[i]) /\ ~ResultOf(trace[i]).ok
        /\ trace[i].parentPackages # <<>>
        /\ Head(trace[i].version) = "^"
        /\ i + 2 <= Len(trace)
        /\ IsError(trace[i + 1])
        /\ IsFetch(trace[i + 2])
        /\ trace[i + 2].parentPackages = trace[i].parentPackages

----------------------------------------------------------------------------
\* an entry point has just called init and has done nothing else yet
JustEntered ==
    /\ status = "walking"
    /\ \/ /\ stack[1].kind = "checkLocalDirectory"
          /\ Len(stack) = 1 /\ stack[1].loop = "register" /\ stack[1].i = 1
       \/ /\ stack[1].kind = "checkGitHubPR"
          /\ Len(stack) = 1 /\ stack[1].i = 1
       \/ /\ stack[1].kind = "checkRemotePackage"
          /\ \/ Len(stack) = 1 /\ trace = <<>>
             \/ Len(stack) = 2 /\ Top(stack).loop = "fetching"

\* C8: at the start of every entry point the processed set, the failed set
\* and the local-package registry are all empty, whatever ran before on the
\* same instance.
C8_AllSetsResetAtEntry ==
    JustEntered =>
        /\ processedPackages = {}
        /\ failedPackages = {}
        /\ localPackages = {}

----------------------------------------------------------------------------
\* the name@version of the manifests found in directory and in the
\* directories under its packages/
DiscoveredKeys(directory) ==
    LET dirs == {directory} \cup
                {directory \o <<"packages", Subpackages(directory)[k]>> :
                    k \in 1..Len(Subpackages(directory))}
        found == {n \in 1..Len(Files) : Files[n].dir \in dirs /\ Files[n].file.valid}
    IN  {At(Files[n].file.json.name, Files[n].file.json.version) : n \in found}

\* a version specifier without one leading ~ or ^
WithoutRangeCharacter(spec) ==
    IF spec # <<>> /\ (spec[1] = "~" \/ spec[1] = "^")
    THEN SubSeq(spec, 2, Len(spec)) ELSE spec

\* C9: in a local-directory run no registry request is issued for an edge
\* whose name and version specifier, a leading ~ or ^ taken off, are the
\* name@version of a manifest discovered in the directory or under packages/.
C9_NoRequestForLocalPackage ==
    (status = "walking" /\ stack[1].kind = "checkLocalDirectory") =>
        \A i \in DOMAIN trace :
            trace[i].type = "request" =>
                At(trace[i].packageName, WithoutRangeCharacter(trace[i].version))
                    \notin DiscoveredKeys(stack[1].localDirectory)

\* a local run that has walked past an edge ^x.y.z to a manifest discovered
\* under packages/ and has requested the next sibling from the registry
C9_Witness ==
    /\ status = "walking" /\ stack[1].kind = "checkLocalDirectory"
    /\ \E i \in DOMAIN trace :
           /\ trace[i].type = "request"
           /\ Len(trace[i].parentPackages) = 1
           /\ EdgeIndex(trace[i]) = 2
           /\ LET first == EdgesOf(ManifestOf(trace[i].parentPackages[1][1]))[1]
              IN  /\ first.spec # WithoutRangeCharacter(first.spec)
                  /\ At(first.pkg, WithoutRangeCharacter(first.spec))
                         \in DiscoveredKeys(stack[1].localDirectory)
                  /\ \A j \in DOMAIN trace : trace[j].packageName # first.pkg

----------------------------------------------------------------------------
\* the fetch that answered with a manifest and that the 'error' event e is for
AnsweredFetchOf(e) ==
    {j \in DOMAIN trace :
        /\ IsFetch(trace[j]) /\ ResultOf(trace[j]).ok
        /\ trace[j].packageName = e.packageName
        /\ trace[j].version = e.version
        /\ trace[j].parentPackages = e.parentPackages}

\* C10: for a package on packageAllowlist whose manifest was obtained, a
\* manifest that violates the schema raises no 'error' event and produces no
\* Finding, whatever its license.
C10_AllowlistedRaisesNothing ==
    \A i \in DOMAIN trace :
        isPackageAllowlisted(config, trace[i].packageName) =>
            /\ ~IsFinding(trace[i])
            /\ IsError(trace[i]) =>
                   /\ IsEdgeError(trace[i])
                   /\ AnsweredFetchOf(trace[i]) = {}

----------------------------------------------------------------------------
\* Reading the calls of getPRCommits

\* the call has its answer
IsAnswered(call) == call.answer # NoAnswer

\* nothing is left to happen: no request in flight, no timer set, no
\* callback with a settled call to go on from
IsQuiescent ==
    /\ prCalls # <<>>
    /\ \A n \in DOMAIN prCalls :
           /\ prCalls[n].state \notin {"requesting", "waiting"}
           /\ (prCalls[n].state = "awaiting" /\ n < Len(prCalls)) =>
                  prCalls[n + 1].state \notin {"resolved", "rejected"}

\* the mergeable field was not set in any answer
NeverResolves == \A n \in DOMAIN prCalls : prCalls[n].answer.mergeable = "null"

\* C11: a getPRCommits call that starts at attempt 1 on a pull request whose
\* mergeable field is never set has, when all is over, made exactly 11
\* requests and its promise is rejected with the error that reports 11 tries.
C11_RejectsAfterElevenTries ==
    (IsQuiescent /\ prCalls[1].attemptCount = 1 /\ NeverResolves) =>
        /\ prRequests = MAX_PR_COMMIT_RETRIES + 1
        /\ prCalls[1].state = "rejected"
        /\ prCalls[1].error = GivingUp(MAX_PR_COMMIT_RETRIES + 1)

----------------------------------------------------------------------------
----------------------------------------------------------------------------
\* C13: a call whose answer says not mergeable throws 'PR is not mergeable'
\* and no request follows it; a call whose answer says mergeable returns
\* {mergeCommitSha, headCommitSha} when both SHAs are there, throws 'Merge
\* commit SHA is not found' when the merge SHA is absent, and 'HEAD commit
\* SHA is not found' when only the head SHA is absent.
C13_DeterminateAnswers ==
    \A n \in DOMAIN prCalls :
        LET call == prCalls[n] IN
        /\ (IsAnswered(call) /\ call.answer.mergeable = "false") =>
               /\ call.state = "rejected"
               /\ call.error = <<"PR is not mergeable">>
               /\ n = Len(prCalls) /\ prRequests = n
        /\ (IsAnswered(call) /\ call.answer.mergeable = "true") =>
               /\ n = Len(prCalls) /\ prRequests = n
               /\ IF call.answer.merge_commit_sha = ""
                  THEN /\ call.state = "rejected"
                       /\ call.error = <<"Merge commit SHA is not found">>
                  ELSE IF call.answer.head = ""
                  THEN /\ call.state = "rejected"
                       /\ call.error = <<"HEAD commit SHA is not found">>
                  ELSE /\ call.state = "resolved"
                       /\ call.value = PRCommits(call.answer.merge_commit_sha,
                                                 call.answer.head)

\* the caller's call got a mergeable answer with neither SHA and threw for
\* the merge SHA
C13_Witness ==
    /\ Len(prCalls) = 1
    /\ prCalls[1].answer = Answer("true", "", "")
    /\ prCalls[1].state = "rejected"
    /\ prCalls[1].error = <<"Merge commit SHA is not found">>

----------------------------------------------------------------------------
\* the reference of C14: null and '' are not green; a name that does not
\* normalize is green iff it is in the raw allowlist as it stands; a name
\* that normalizes is green iff the evaluation of the allow-expression does
\* not throw and its canonical id is one of the disjuncts
IsGreenReference(license, exprIds, rawAllowlist) ==
    IF license = <<>> THEN FALSE
    ELSE IF correctLicenseName(license) = <<>>
    THEN license \in Range(rawAllowlist)
    ELSE IF spdxSatisfies(correctLicenseName(license), exprIds).threw
    THEN FALSE
    ELSE correctLicenseName(license)[1] \in Range(exprIds)

\* C14: isGreenLicense(license) equals the reference for every license
\* string and every rule set; under the default rule set MIT is green, a
\* made-up license is not and null is not.
C14_IsGreenEqualsReference ==
    fnCall.fn = "isGreenLicense" =>
        /\ fnResult = IsGreenReference(fnCall.arg, greenLicenseExpr, allowlistedLicenses)
        /\ config = NoConfig =>
               /\ fnCall.arg = <<"MIT">> => fnResult = TRUE
               /\ fnCall.arg = <<"EVIL-MADE-UP-LICENSE">> => fnResult = FALSE
               /\ fnCall.arg = <<>> => fnResult = FALSE

\* a name that does not normalize was found green through the raw allowlist
C14_Witness ==
    /\ fnCall.fn = "isGreenLicense"
    /\ correctLicenseName(fnCall.arg) = <<>>
    /\ fnCall.arg \in Range(allowlistedLicenses)
    /\ fnResult = TRUE

----------------------------------------------------------------------------
\* the list init builds the rule set from
ConfiguredList ==
    IF config.hasGreenLicenses THEN config.greenLicenses
    ELSE [k \in 1..Len(DEFAULT_GREEN_LICENSES) |-> <<DEFAULT_GREEN_LICENSES[k]>>]

\* C15: init partitions the configured green-license list, or the default
\* list when none is configured: an entry that normalizes gives its
\* normalized id to the allow-expression and is not in the raw allowlist, an
\* entry that does not normalize is in the raw allowlist as it stands and
\* not in the expression, and nothing else is in either; a configured list
\* replaces the default list.
C15_RuleSetPartition ==
    RuleSetIsBuilt =>
        /\ \A k \in DOMAIN ConfiguredList :
               LET entry == ConfiguredList[k]
                   id == correctLicenseName(entry)
               IN  IF id # <<>>
                   THEN /\ id[1] \in Range(greenLicenseExpr)
                        /\ entry \notin Range(allowlistedLicenses)
                   ELSE /\ entry \in Range(allowlistedLicenses)
                        /\ \A n \in DOMAIN greenLicenseExpr : <<greenLicenseExpr[n]>> # entry
        /\ \A n \in DOMAIN greenLicenseExpr :
               \E k \in DOMAIN ConfiguredList :
                   correctLicenseName(ConfiguredList[k]) = <<greenLicenseExpr[n]>>
        /\ \A n \in DOMAIN allowlistedLicenses :
               \E k \in DOMAIN ConfiguredList :
                   /\ ConfiguredList[k] = allowlistedLicenses[n]
                   /\ correctLicenseName(ConfiguredList[k]) = <<>>
        /\ Len(greenLicenseExpr) + Len(allowlistedLicenses) = Len(ConfiguredList)
        /\ (config.hasGreenLicenses /\ fnCall.fn = "isGreenLicense"
            /\ fnCall.arg = <<"ISC">>
            /\ <<"ISC">> \notin Range(config.greenLicenses)) => fnResult = FALSE

\* a configured list with an entry that normalizes to another name and one
\* that does not normalize; ISC, left out of the list, was found not green
C15_Witness ==
    /\ config.hasGreenLicenses
    /\ \E k \in DOMAIN config.greenLicenses :
           /\ correctLicenseName(config.greenLicenses[k]) # <<>>
           /\ correctLicenseName(config.greenLicenses[k]) # config.greenLicenses[k]
    /\ allowlistedLicenses # <<>>
    /\ fnCall.fn = "isGreenLicense" /\ fnCall.arg = <<"ISC">> /\ fnResult = FALSE

----------------------------------------------------------------------------
\* pkgJson.license || pkgJson.licenses, the field getLicense reads
LicenseField(json) ==
    IF json.license.kind = "undefined"
       \/ (json.license.kind = "string" /\ json.license.str = <<>>)
    THEN json.licenses ELSE json.license

\* the non-empty `type` fields of an array of legacy license objects
TypesOf(field) == SelectSeq(field.items, LAMBDA t : t \notin {<<>>, <<"">>})

\* C16: getLicense on an array of legacy license objects collects the
\* non-empty types; one distinct type is returned bare, several are returned
\* as '(typeA OR typeB OR ...)', and an empty array or one that yields no
\* types gives null.
C16_LegacyArrayLicense ==
    (/\ fnCall.fn = "getLicense"
     /\ LicenseField(fnCall.arg).kind = "array"
     /\ \A k \in DOMAIN LicenseField(fnCall.arg).items :
            LicenseField(fnCall.arg).items[k] # <<>>) =>
        LET types == TypesOf(LicenseField(fnCall.arg))
        IN  CASE Range(types) = {} -> fnResult = <<>>
              [] Cardinality(Range(types)) = 1 -> fnResult = types[1]
              [] OTHER -> fnResult = <<"(">> \o JoinOr(types) \o <<")">>

----------------------------------------------------------------------------
\* the Manifest invariant: name and version unless private, string values in
\* the dependency maps, license fields of a valid shape
ManifestInvariant(json) ==
    /\ json.private \/ (json.name # "" /\ json.version # <<>>)
    /\ \A k \in DOMAIN json.dependencies : json.dependencies[k].isString
    /\ \A k \in DOMAIN json.devDependencies : json.devDependencies[k].isString
    /\ \A field \in {json.license, json.licenses} :
           \/ field.kind \in {"undefined", "string"}
           \/ field.kind = "object" /\ field.str # <<>>
           \/ field.kind = "array" /\ \A k \in DOMAIN field.items : field.items[k] # <<>>

\* C17: ensurePackageJson returns the manifest iff the manifest satisfies
\* the Manifest invariant, and throws Invalid package.json otherwise.
C17_ValidationIsInvariant ==
    fnCall.fn = "ensurePackageJson" =>
        (fnResult = <<"returned">> <=> ManifestInvariant(fnCall.arg))

----------------------------------------------------------------------------
\* the Findings of the run
Findings == SelectSeq(trace, IsFinding)

\* the run is a finished local run of the directory whose package.json is
\* {private: true} and nothing more
IsPrivateRun ==
    /\ status = "done"
    /\ trace # <<>>
    /\ trace[1] = PackageJsonEvent(<<"private", "package.json">>)

\* C18: a private manifest with neither license nor licenses has the
\* license 'private': it gives no Finding iff 'private' is in the raw
\* allowlist of the rule set, and exactly one Finding, with that license
\* name, otherwise; with an empty dependency map nothing is fetched.
C18_PrivatePackage ==
    IsPrivateRun =>
        /\ \A i \in DOMAIN trace : ~IsFetch(trace[i])
        /\ IF <<"private">> \in Range(allowlistedLicenses)
           THEN Findings = <<>>
           ELSE /\ Len(Findings) = 1
                /\ Findings[1].licenseName = <<"private">>
                /\ Findings[1].parentPackages = <<>>

\* the private package was accepted under a list that names 'private'
C18_Witness ==
    /\ IsPrivateRun
    /\ <<"private">> \in Range(allowlistedLicenses)
    /\ trace = <<PackageJsonEvent(<<"private", "package.json">>), EndEvent>>

\* the private package was declined under the default list
C18_Declined ==
    /\ IsPrivateRun
    /\ config = NoConfig
    /\ Len(Findings) = 1
    /\ Findings[1].packageName = "undefined"
    /\ Findings[1].version = <<"undefined">>

----------------------------------------------------------------------------
\* the step that ends a run: 'end' was emitted or the entry point rejected
RunEnds == status = "walking" /\ status' # "walking"

\* the entry point of the run under way
Entry == stack[1]

IsDiscoveryRun ==
    stack # <<>> /\ Entry.kind \in {"checkLocalDirectory", "checkGitHubPR"}

\* the manifest files the run discovered, in discovery order: paths and contents
DiscoveredPaths ==
    [k \in 1..Len(Entry.files) |->
        IF Entry.kind = "checkLocalDirectory"
        THEN Append(Entry.files[k], "package.json")
        ELSE Entry.files[k].filePath]

DiscoveredContent(k) ==
    IF Entry.kind = "checkLocalDirectory"
    THEN ReadPackageJson(Entry.files[k]).file
    ELSE Entry.files[k].content

\* a 'package.json' event of a discovered file; the event getPackageJson
\* emits for a file: dependency is followed by the read of that file
IsRootVisit(tr, i) ==
    /\ tr[i].type = "package.json"
    /\ ~(i < Len(tr) /\ tr[i + 1].type = "read")

RECURSIVE VisitedPaths(_)
\* the paths of the root visits of a trace, in order
VisitedPaths(tr) ==
    IF tr = <<>> THEN <<>>
    ELSE (IF IsRootVisit(tr, 1) THEN <<tr[1].filePath>> ELSE <<>>)
         \o VisitedPaths(Tail(tr))

\* what C19 asks of the trace a run leaves behind
VisitsAllDiscovered(tr) ==
    /\ VisitedPaths(tr) = DiscoveredPaths
    /\ \A j \in DOMAIN tr :
          IsFinding(tr[j]) /\ tr[j].parentPackages = <<>> =>
              \E i \in 1..(j - 1), k \in DOMAIN DiscoveredPaths :
                  /\ IsRootVisit(tr, i)
                  /\ tr[i].filePath = DiscoveredPaths[k]
                  /\ DiscoveredContent(k).valid
                  /\ tr[j].packageName =
                         EffectiveName("", DiscoveredContent(k).json)

\* C19: 'package.json' events are never emitted during checkRemotePackage;
\* a local or PR run emits one for each discovered manifest file, before
\* the manifest is classified, the top-level manifest first and the
\* sub-packages in directory-listing order.
C19_OneEventPerManifest ==
    [][/\ (stack # <<>> /\ Entry.kind = "checkRemotePackage") =>
              \A i \in DOMAIN trace' : trace'[i].type # "package.json"
       /\ (RunEnds /\ IsDiscoveryRun) => VisitsAllDiscovered(trace')]_vars

\* the same for the runs that reach 'end'
C19_RunsThatEnd ==
    [][/\ (stack # <<>> /\ Entry.kind = "checkRemotePackage") =>
              \A i \in DOMAIN trace' : trace'[i].type # "package.json"
       /\ (RunEnds /\ IsDiscoveryRun /\ status' = "done") =>
              VisitsAllDiscovered(trace')]_vars

----------------------------------------------------------------------------
\* the k-th discovered manifest as checkPackageJson takes it: its name and
\* its key among the processed packages
RootName(k) == EffectiveName("", DiscoveredContent(k).json)

RootKey(k) ==
    LET json == DiscoveredContent(k).json
    IN  At(RootName(k),
           VersionString(IF isPackageAllowlisted(config, RootName(k))
                         THEN WithValidVersion(json).version ELSE json.version))

\* the k-th discovered file holds a manifest that can be checked
IsCheckable(k) ==
    /\ DiscoveredContent(k).valid
    /\ \/ isPackageAllowlisted(config, RootName(k))
       \/ isPackageJson(DiscoveredContent(k).json)

\* the k-th discovered manifest was classified as a root: it is among the
\* processed packages, and its Finding, if its license is not green, has
\* no ancestors
ClassifiedAsRoot(k, processed, tr) ==
    /\ RootKey(k) \in processed
    /\ (/\ ~isPackageAllowlisted(config, RootName(k))
        /\ ~isGreenLicense(getLicense(DiscoveredContent(k).json),
                           greenLicenseExpr, allowlistedLicenses))
       => \E j \in DOMAIN tr :
             /\ IsFinding(tr[j])
             /\ tr[j].packageName = RootName(k)
             /\ tr[j].parentPackages = <<>>

\* every dependency of the k-th discovered manifest was walked from it: it
\* was fetched with the manifest as its only ancestor, unless it is a local
\* package or a request that failed
DependenciesWalked(k, failed, tr) ==
    LET edges == EdgesOf(DiscoveredContent(k).json)
    IN  \A n \in DOMAIN edges :
           \/ \E j \in DOMAIN tr :
                 /\ IsFetch(tr[j])
                 /\ tr[j].packageName = edges[n].pkg
                 /\ tr[j].version = edges[n].spec
                 /\ tr[j].parentPackages = <<RootKey(k)>>
           \/ At(edges[n].pkg, edges[n].spec) \in failed
           \/ At(edges[n].pkg, WithoutRangeCharacter(edges[n].spec)) \in localPackages

\* C20: in a local or PR run every discovered package.json is checked: it
\* is classified as a root with an empty ancestor chain and its
\* dependencies are walked, whatever the set of discovered manifests.
C20_AllDiscoveredChecked ==
    [][(RunEnds /\ IsDiscoveryRun) =>
          \A k \in DOMAIN DiscoveredPaths :
             IsCheckable(k) =>
                /\ ClassifiedAsRoot(k, processedPackages', trace')
                /\ DependenciesWalked(k, failedPackages', trace')]_vars

\* the same for the runs that reach 'end'
C20_RunsThatEnd ==
    [][(RunEnds /\ IsDiscoveryRun /\ status' = "done") =>
          \A k \in DOMAIN DiscoveredPaths :
             IsCheckable(k) =>
                /\ ClassifiedAsRoot(k, processedPackages', trace')
                /\ DependenciesWalked(k, failedPackages', trace')]_vars

----------------------------------------------------------------------------
\* the fetch e asks for the edge d
FetchesEdge(e, d) ==
    IsFetch(e) /\ e.packageName = d.pkg /\ d.isString /\ e.version = d.spec

\* the devDependencies entry d of the processed package key was walked in
\* the trace tr: it was fetched below key after every fetch of a
\* dependencies entry below key, or it is a local package or a failed request
DevEdgeWalked(key, d, failed, tr) ==
    \/ \E j \in DOMAIN tr :
          /\ FetchesEdge(tr[j], d)
          /\ tr[j].parentPackages # <<>>
          /\ Last(tr[j].parentPackages) = key
          /\ \A i \in DOMAIN tr :
                (/\ IsFetch(tr[i])
                 /\ tr[i].parentPackages = tr[j].parentPackages
                 /\ \E n \in DOMAIN ManifestOf(key[1]).dependencies :
                       FetchesEdge(tr[i], ManifestOf(key[1]).dependencies[n]))
                => i < j
    \/ d.isString /\ At(d.pkg, d.spec) \in failed
    \/ d.isString /\ At(d.pkg, WithoutRangeCharacter(d.spec)) \in localPackages

\* with dev disabled every fetch below a manifest asks for an entry of its
\* dependencies
OnlyDependenciesFetched(tr) ==
    \A j \in DOMAIN tr :
       (IsFetch(tr[j]) /\ tr[j].parentPackages # <<>>) =>
           \E n \in DOMAIN ManifestOf(Last(tr[j].parentPackages)[1]).dependencies :
              FetchesEdge(tr[j],
                          ManifestOf(Last(tr[j].parentPackages)[1]).dependencies[n])

\* C21: devDependencies are resolved iff the dev option is enabled.  With
\* dev disabled no devDependencies entry of any manifest is fetched; with
\* dev enabled, when the run is over, the devDependencies of every visited
\* manifest were walked after its dependencies with the same chain.
C21_DevDependenciesIffDev ==
    [][/\ ~opts.dev => OnlyDependenciesFetched(trace')
       /\ (RunEnds /\ opts.dev) =>
             \A key \in processedPackages' :
                \A n \in DOMAIN ManifestOf(key[1]).devDependencies :
                   DevEdgeWalked(key, ManifestOf(key[1]).devDependencies[n],
                                 failedPackages', trace')]_vars

\* a run with dev enabled fetched the devDependencies entry baz of left
\* after left's dependency shared
C21_DevWalked ==
    /\ opts.dev
    /\ status = "done"
    /\ \E i, j \in DOMAIN trace :
          /\ i < j
          /\ trace[i] = Request("shared", Caret("2.0.0"), trace[j].parentPackages)
          /\ trace[j].type = "request"
          /\ trace[j].packageName = "baz"
          /\ Last(trace[j].parentPackages) = At("left", V("1.0.0"))

\* a run with dev disabled walked left and did not fetch baz
C21_DevSkipped ==
    /\ ~opts.dev
    /\ status = "done"
    /\ At("left", V("1.0.0")) \in processedPackages
    /\ \A j \in DOMAIN trace : trace[j].packageName # "baz"

----------------------------------------------------------------------------
\* a package argument that names a git repository or a directory: its
\* specifier is no tag, version or range
IsUnsupportedArg(pkg) ==
    pkg.rawSpec # <<>> /\ pkg.rawSpec[1] \in {"git+ssh:", "file:"}

----------------------------------------------------------------------------
\* the rule set is the built-in one and no package is allow-listed
IsDefaultRuleSet ==
    /\ config = NoConfig
    /\ greenLicenseExpr = DEFAULT_GREEN_LICENSES
    /\ allowlistedLicenses = <<>>
    /\ \A name \in DOMAIN Published : ~isPackageAllowlisted(config, name)

\* the file was read and is no configuration: it is no JSON document, or
\* one of its two lists is something other than an array of strings
HasInvalidShape(file) ==
    /\ file.code = ""
    /\ \/ ~file.isJson
       \/ file.obj.greenLicenses.kind = "other"
       \/ file.obj.packageAllowlist.kind = "other"

C23_Override ==
    /\ fnCall.fn = "getGitHubConfig"
    /\ ~fnResult.isNull
    /\ config.packageAllowlist = <<"bar">>
    /\ allowlistedLicenses = <<<<"Foo License">>>>

----------------------------------------------------------------------------
\* the places of the 'end' events in a trace
EndsIn(tr) == {i \in DOMAIN tr : tr[i].type = "end"}

\* C24: a call of an entry point goes from a state with no run in flight
\* through init to the walk and, when it completes, to done; 'end' is
\* emitted once, by the step that completes the call, and is the last
\* event of the run: nothing is emitted after it until the next call.
C24_EndOnceAndLast ==
    [][/\ status' = "done" =>
             /\ trace' # <<>>
             /\ EndsIn(trace') = {Len(trace')}
       /\ status' # "done" => EndsIn(trace') = {}
       /\ (status # "done" /\ status' = "done") => status = "walking"
       /\ status # "walking" =>
             /\ runs' = runs + 1
             /\ processedPackages' = {}
             /\ failedPackages' = {}
             /\ status' \in {"walking", "rejected"}
             /\ \A i \in DOMAIN trace' : IsFetch(trace'[i])]_vars

\* the second run of an instance has completed after a Finding and an
\* 'error' event
C24_Witness ==
    /\ status = "done"
    /\ runs = 2
    /\ \E i, j \in DOMAIN trace : IsFinding(trace[i]) /\ IsError(trace[j])
    /\ Last(trace).type = "end"

----------------------------------------------------------------------------
\* the checkPackageJson calls on the stack that are walking dependencies
Expanding ==
    {p \in DOMAIN stack :
        stack[p].kind = "checkPackageJson" /\ stack[p].loop \in {"deps", "dev"}}

\* a key is marked processed before its dependencies are walked, and no key
\* is being expanded below its own expansion
ExpandedAtMostOnce ==
    /\ \A p \in Expanding : stack[p].key \in processedPackages
    /\ \A p, q \in Expanding : stack[p].key = stack[q].key => p = q

\* C25: on every finite dependency graph, graphs with cycles included, a
\* run terminates and emits 'end'; a resolved name@version is marked
\* processed before its dependencies are walked and is never expanded again.
C25_TerminatesWithEnd ==
    /\ []ExpandedAtMostOnce
    /\ (status = "walking") ~> (status = "done")

\* every run terminates: it emits 'end' or its entry point rejects
C25_Terminates ==
    /\ []ExpandedAtMostOnce
    /\ (status = "walking") ~> (status \in {"done", "rejected"})

\* a run on the cycle left -> shared -> left: the second fetch of left is
\* answered while left is being expanded further down the stack
C25_CycleReached ==
    /\ Len(stack) > 0
    /\ Top(stack).kind = "checkPackageJson"
    /\ Top(stack).loop = "start"
    /\ Top(stack).packageName = "left"
    /\ \E p \in Expanding : stack[p].key = At("left", V("1.0.0"))

----------------------------------------------------------------------------
\* a local-directory run is in flight
IsLocalRun == stack # <<>> /\ Entry.kind = "checkLocalDirectory"

\* the name@version of the discovered manifests that have both
NamedKeys(directory) ==
    {key \in DiscoveredKeys(directory) : key[1] # "" /\ key[2] # <<>>}

\* the run has begun to classify or to fetch
HasBegunToCheck ==
    \/ Entry.loop = "check"
    \/ trace # <<>>
    \/ processedPackages # {}
    \/ Len(stack) > 1

\* C26: in a local-directory run the name@version of every discovered
\* manifest is registered before the first manifest is classified and
\* before the first fetch, and the registry does not change afterwards: the
\* set the local short-circuit looks at is the same for every edge.
C26_RegisteredBeforeChecking ==
    [][IsLocalRun =>
          /\ Entry.loop = "register" =>
                trace = <<>> /\ processedPackages = {} /\ Len(stack) = 1
          /\ HasBegunToCheck =>
                /\ NamedKeys(Entry.localDirectory) \subseteq localPackages
                /\ localPackages' = localPackages]_vars

\* a run of the monorepo is fetching a dependency with both of its packages
\* registered
C26_Witness ==
    /\ IsLocalRun
    /\ Entry.localDirectory = <<"mono">>
    /\ Top(stack).kind = "checkLicenses"
    /\ {At("mono", V("1.0.0")), At("sub", V("1.0.0"))} \subseteq localPackages

----------------------------------------------------------------------------
\* the call on top of the stack is checkPackageJson, about to validate the
\* manifest that the checkLicenses call below it has fetched, and the
\* manifest is invalid
IsInvalidDependency ==
    /\ Len(stack) >= 2
    /\ Top(stack).kind = "checkPackageJson"
    /\ Top(stack).loop = "start"
    /\ stack[Len(stack) - 1].kind = "checkLicenses"
    /\ ~isPackageAllowlisted(config,
                             EffectiveName(Top(stack).packageName, Top(stack).json))
    /\ ~isPackageJson(Top(stack).json)

\* what C27 asks of the step that finds the manifest invalid: one 'error'
\* for the edge and nothing else is emitted, the package is not processed,
\* and the walk is back in the parent's loop
FatalToSubtreeOnly ==
    LET edge == stack[Len(stack) - 1]
    IN  /\ trace' = Append(trace, CheckError(edge.packageName, edge.versionSpec,
                                             edge.parents))
        /\ processedPackages' = processedPackages
        /\ stack' = SubSeq(stack, 1, Len(stack) - 2)
        /\ status' = "walking"

\* nothing is fetched or flagged below a package whose manifest is invalid
NothingBelowInvalid ==
    \A i, j \in DOMAIN trace :
       (/\ IsError(trace[i])
        /\ trace[i].packageName \in DOMAIN Published
        /\ ~isPackageAllowlisted(config, trace[i].packageName)
        /\ ~isPackageJson(Published[trace[i].packageName])
        /\ trace[j].parentPackages # <<>>)
       => Last(trace[j].parentPackages)[1] # trace[i].packageName

\* C27: an invalid manifest of a dependency is fatal to that node's subtree
\* only: one 'error' event is emitted for it, no Finding, none of its
\* dependencies is fetched, and the walk goes on with the next sibling edge
\* of its parent.
C27_InvalidManifestIsLocal ==
    [][/\ IsInvalidDependency => FatalToSubtreeOnly
       /\ NothingBelowInvalid']_vars

\* the same when an 'error' listener is registered
C27_WithListener ==
    [][/\ (IsInvalidDependency /\ opts.errorListener) => FatalToSubtreeOnly
       /\ NothingBelowInvalid']_vars

\* the invalid manifest of bad was reported and its sibling foo was fetched
C27_SiblingFetched ==
    \E i, j \in DOMAIN trace :
       /\ i < j
       /\ trace[i] = CheckError("bad", Caret("1.0.0"), <<At("hello", V("1.0.0"))>>)
       /\ trace[j] = Request("foo", Caret("1.2.3"), <<At("hello", V("1.0.0"))>>)

----------------------------------------------------------------------------
\* the package is allow-listed and the version its manifest declares is
\* missing or no semantic version
HasDefaultedVersion(name) ==
    /\ isPackageAllowlisted(config, name)
    /\ ~semverValid(ManifestOf(name).version)

DefaultedKey(name) == At(name, <<"0.0.0">>)

\* C28: an allow-listed package whose declared version is missing or no
\* valid semantic version is given the version '0.0.0': its resolved key,
\* its entry in processedPackages and the element of the ancestor chain
\* passed to its dependencies are all name@0.0.0.
C28_DefaultedVersion ==
    /\ \A key \in processedPackages :
          HasDefaultedVersion(key[1]) => key = DefaultedKey(key[1])
    /\ \A p \in Expanding :
          HasDefaultedVersion(stack[p].packageName) =>
             /\ stack[p].key = DefaultedKey(stack[p].packageName)
             /\ stack[p].key \in processedPackages
             /\ (p < Len(stack) /\ stack[p + 1].kind = "checkLicenses") =>
                    stack[p + 1].parents = Append(stack[p].parents, stack[p].key)
    /\ \A i \in DOMAIN trace :
          \A n \in DOMAIN trace[i].parentPackages :
             HasDefaultedVersion(trace[i].parentPackages[n][1]) =>
                trace[i].parentPackages[n] =
                    DefaultedKey(trace[i].parentPackages[n][1])

\* the allow-listed odd, whose version is 'one', was processed as
\* odd@0.0.0 and its dependency bar was fetched below odd@0.0.0
C28_Witness ==
    /\ DefaultedKey("odd") \in processedPackages
    /\ \E i \in DOMAIN trace :
          /\ trace[i].type = "request"
          /\ trace[i].packageName = "bar"
          /\ trace[i].parentPackages # <<>>
          /\ Last(trace[i].parentPackages) = DefaultedKey("odd")

\* the allow-listed pr2, which declares no version, was processed as
\* pr2@0.0.0 and its devDependency was fetched below pr2@0.0.0
C28_MissingVersion ==
    /\ DefaultedKey("pr2") \in processedPackages
    /\ \E i \in DOMAIN trace :
          trace[i] = Request("bar", Caret("4.5.0"), <<DefaultedKey("pr2")>>)

----------------------------------------------------------------------------
\* the manifest fetched by e belongs to a package that is flagged when it
\* is classified: it is valid, not allow-listed and its license is not green
IsFlaggable(e) ==
    /\ ResultOf(e).ok
    /\ ~isPackageAllowlisted(config, e.packageName)
    /\ isPackageJson(ResultOf(e).json)
    /\ ~isGreenLicense(getLicense(ResultOf(e).json), greenLicenseExpr,
                       allowlistedLicenses)

\* the entry d of a dependency map of the processed package key was walked
\* in tr: it was fetched below key and, if what was fetched is flaggable,
\* tr has a Finding for it; or it is a local package or a failed request
EdgeWalked(key, d, failed, tr) ==
    \/ \E j \in DOMAIN tr :
          /\ FetchesEdge(tr[j], d)
          /\ tr[j].parentPackages # <<>>
          /\ Last(tr[j].parentPackages) = key
          /\ IsFlaggable(tr[j]) =>
                \E i \in DOMAIN tr :
                   IsFinding(tr[i]) /\ tr[i].packageName = d.pkg
    \/ d.isString /\ At(d.pkg, d.spec) \in failed
    \/ d.isString /\ At(d.pkg, WithoutRangeCharacter(d.spec)) \in localPackages

\* the allow-listed packages the run has processed
ProcessedAllowlisted(processed) ==
    {key \in processed : isPackageAllowlisted(config, key[1])}

\* C29: allow-listing a package skips its own Finding only: the package is
\* marked processed, and when the run is over every entry of its
\* dependencies (and of its devDependencies when dev is enabled) was
\* fetched and classified, so that a dependency that is not green and not
\* allow-listed has its Finding.
C29_AllowlistedSubtreeWalked ==
    [][/\ \A i \in DOMAIN trace' :
             IsFinding(trace'[i]) =>
                ~isPackageAllowlisted(config', trace'[i].packageName)
       /\ RunEnds =>
             \A key \in ProcessedAllowlisted(processedPackages') :
                \A n \in DOMAIN EdgesOf(ManifestOf(key[1])) :
                   LET d == EdgesOf(ManifestOf(key[1]))[n]
                   IN  d.isString =>
                          EdgeWalked(key, d, failedPackages', trace')]_vars

\* the same for the runs with an 'error' listener and the allow-listed
\* packages whose dependency maps map every name to a string
C29_WellFormed ==
    [][/\ \A i \in DOMAIN trace' :
             IsFinding(trace'[i]) =>
                ~isPackageAllowlisted(config', trace'[i].packageName)
       /\ (RunEnds /\ opts.errorListener) =>
             \A key \in ProcessedAllowlisted(processedPackages') :
                isDependencies(ManifestOf(key[1]).dependencies) =>
                   \A n \in DOMAIN EdgesOf(ManifestOf(key[1])) :
                      EdgeWalked(key, EdgesOf(ManifestOf(key[1]))[n],
                                 failedPackages', trace')]_vars

\* the allow-listed bad was processed without a Finding and its dependency
\* baz, which is not green, was flagged below it
C29_DependencyFlagged ==
    /\ isPackageAllowlisted(config, "bad")
    /\ At("bad", V("1.0.0")) \in processedPackages
    /\ \E i \in DOMAIN trace :
          /\ IsFinding(trace[i])
          /\ trace[i].packageName = "baz"
          /\ trace[i].parentPackages # <<>>
          /\ Last(trace[i].parentPackages) = At("bad", V("1.0.0"))
    /\ \A i \in DOMAIN trace : IsFinding(trace[i]) => trace[i].packageName # "bad"

----------------------------------------------------------------------------
\* the checkLicenses calls that have not returned, and those among them
\* whose getPackageJson has not settled
OpenEdges(stk) == {p \in DOMAIN stk : stk[p].kind = "checkLicenses"}

InFlight(stk) == {p \in OpenEdges(stk) : stk[p].loop = "fetching"}

\* the fetches issued so far in the run
Fetches(tr) == SelectSeq(tr, IsFetch)

\* C30: within a run at most one metadata fetch is in flight at any time.
\* A fetch starts only when no other fetch is pending and every edge whose
\* call has not returned is an ancestor of the new edge: the fetch,
\* classification and subtree walk of every earlier sibling have finished.
C30_OneFetchInFlight ==
    [][/\ Cardinality(InFlight(stack')) <= 1
       /\ InFlight(stack') \subseteq {Len(stack')}
       /\ status = "walking" =>
             /\ Len(Fetches(trace')) <= Len(Fetches(trace)) + 1
             /\ Len(Fetches(trace')) > Len(Fetches(trace)) =>
                   /\ InFlight(stack) = {}
                   /\ InFlight(stack') = {Len(stack')}
                   /\ \A p \in OpenEdges(stack') \ {Len(stack')} :
                         /\ stack'[p].loop = "checking"
                         /\ IsPrefix(stack'[p].parents, Top(stack').parents)
                         /\ Len(stack'[p].parents) < Len(Top(stack').parents)
       /\ status # "walking" => Len(Fetches(trace')) <= 1]_vars

\* a fetch is in flight for an edge whose earlier sibling was fetched and
\* walked to the end of its subtree
C30_Witness ==
    /\ InFlight(stack) = {Len(stack)}
    /\ IsFetch(Last(trace))
    /\ \E i, k \in DOMAIN trace :
          /\ i < k
          /\ k < Len(trace)
          /\ IsFetch(trace[i])
          /\ trace[i].parentPackages = Last(trace).parentPackages
          /\ IsFetch(trace[k])
          /\ Len(trace[k].parentPackages) > Len(trace[i].parentPackages)

----------------------------------------------------------------------------
\* the step is the second call's entry, made while the first call is walking
SecondCallEnters == other.status = "none" /\ other'.status = "walking"

\* the per-run guarantees of the dedup sets, for the call that is running:
\* one Finding per resolved key, no request for a spec that failed
DedupHolds == C1_FindingOncePerKey /\ C6_FailedSpecNotRetried

\* C31: two overlapping calls on one instance share processedPackages and
\* failedPackages, and the init of the second call clears both while the
\* first call is walking (which can break the first call's dedup
\* guarantees); a call on a separate instance leaves the sets of the first
\* instance as they are, is not touched by the steps of the first call, and
\* both calls keep their guarantees.
C31_OverlapSharesAndClears ==
    [][/\ SecondCallEnters =>
             IF other'.same
             THEN /\ processedPackages' = {}
                  /\ failedPackages' = {}
                  /\ other'.instance = NewInstance
             ELSE /\ other'.instance.processedPackages = processedPackages
                  /\ other'.instance.failedPackages = failedPackages
       /\ (~other.same /\ other'.current = other.current) => other' = other
       /\ ~other'.same => DedupHolds']_vars

\* the first call, overlapped on its instance by a second one, has emitted
\* two Findings for one resolved key
C31_Witness ==
    /\ other.status # "none"
    /\ other.same
    /\ other.current = 1
    /\ \E i, j \in DOMAIN trace :
          /\ i < j
          /\ IsFinding(trace[i])
          /\ IsFinding(trace[j])
          /\ trace[i].packageName = trace[j].packageName
          /\ trace[i].version = trace[j].version

\* the first call, overlapped on its instance, has requested a spec again
\* after the 'error' event of that spec
C31_FailedSpecRefetched ==
    /\ other.status # "none"
    /\ other.same
    /\ other.current = 1
    /\ \E i, j \in DOMAIN trace :
          /\ i < j
          /\ IsError(trace[i])
          /\ trace[j] = Request(trace[i].packageName, trace[i].version,
                                trace[j].parentPackages)

----------------------------------------------------------------------------
\* the directory of the package.json on disk that declares the name
DirectoryOf(name) ==
    Files[CHOOSE k \in 1..Len(Files) :
             Files[k].file.valid /\ Files[k].file.json.name = name].dir

\* the package.json a file: specifier points to when it is resolved against
\* the directory of the manifest that declares it
ResolvedAgainstDeclarer(e) ==
    Append(Join(DirectoryOf(Last(e.parentPackages)[1]), Tail(e.version)),
           "package.json")

\* C32: in a local-directory run a dependency given as file:<path> is read
\* from the path resolved against the directory of the manifest that
\* declares it, at every depth, and is never requested from the registry.
C32_FileDependencyResolved ==
    IsLocalRun =>
        \A i \in DOMAIN trace :
           /\ (trace[i].type = "request" /\ trace[i].version # <<>>) =>
                 Head(trace[i].version) # "file:"
           /\ trace[i].type = "read" =>
                 trace[i].filePath = ResolvedAgainstDeclarer(trace[i])

\* the same for the file: dependencies declared by a discovered manifest
C32_FirstLevel ==
    IsLocalRun =>
        \A i \in DOMAIN trace :
           /\ (trace[i].type = "request" /\ trace[i].version # <<>>) =>
                 Head(trace[i].version) # "file:"
           /\ (trace[i].type = "read" /\ Len(trace[i].parentPackages) = 1) =>
                 trace[i].filePath = ResolvedAgainstDeclarer(trace[i])

\* the linked package was read from the directory next to the primary one
C32_LinkedRead ==
    /\ IsLocalRun
    /\ \E i \in DOMAIN trace :
          /\ trace[i].type = "read"
          /\ trace[i].filePath = <<"linked", "package.json">>

----------------------------------------------------------------------------
\* the call of checkPackageJson at position p of the stack classifies its
\* manifest in this step
Classifies(p) ==
    /\ stack[p].kind = "checkPackageJson"
    /\ stack[p].loop = "start"
    /\ p \in DOMAIN stack'
    /\ stack'[p].kind = "checkPackageJson"
    /\ stack'[p].loop = "deps"

\* C33: the traversal never mutates a manifest: the object handed to
\* checkPackageJson, allow-listed or not, has the same fields after it has
\* been classified as when it was fetched or read.
C33_ManifestNotMutated ==
    [][\A p \in DOMAIN stack :
          Classifies(p) => stack'[p].json = stack[p].json]_vars

\* the same for the manifests whose version is a valid semantic version
C33_ValidVersionKept ==
    [][\A p \in DOMAIN stack :
          (Classifies(p) /\ semverValid(stack[p].json.version)) =>
              stack'[p].json = stack[p].json]_vars

\* only the version field is ever assigned
C33_OnlyVersionAssigned ==
    [][\A p \in DOMAIN stack :
          Classifies(p) =>
              [stack'[p].json EXCEPT !.version = stack[p].json.version]
                  = stack[p].json]_vars

----------------------------------------------------------------------------
\* the npm marker for a package that grants no license, in both spellings
Unlicensed == {<<"UNLICENSED">>, <<"UNLICENCED">>}

\* C34: the npm marker 'UNLICENSED', or its spelling 'UNLICENCED', is
\* normalized to the token 'UNLICENSED' and not treated as unrecognized: a
\* configured entry with the marker goes to the allow-expression as
\* 'UNLICENSED' and never to the raw allowlist, and a license with the
\* marker is not green under any rule set, the default one included.
C34_UnlicensedIsNotGreen ==
    /\ RuleSetIsBuilt =>
          \A k \in DOMAIN ConfiguredList :
             ConfiguredList[k] \in Unlicensed =>
                /\ "UNLICENSED" \in Range(greenLicenseExpr)
                /\ ConfiguredList[k] \notin Range(allowlistedLicenses)
    /\ (fnCall.fn = "isGreenLicense" /\ fnCall.arg \in Unlicensed) =>
          fnResult = FALSE

\* 'UNLICENCED' was found not green under a rule set that lists it
C34_Witness ==
    /\ fnCall.fn = "isGreenLicense"
    /\ fnCall.arg = <<"UNLICENCED">>
    /\ config.hasGreenLicenses
    /\ <<"UNLICENCED">> \in Range(config.greenLicenses)
    /\ fnResult = FALSE

\* 'UNLICENSED' was found not green under the default rule set
C34_DefaultRuleSet ==
    /\ fnCall.fn = "isGreenLicense"
    /\ fnCall.arg = <<"UNLICENSED">>
    /\ config = NoConfig
    /\ fnResult = FALSE

\* in a run, a classified package that is not allow-listed and whose
\* manifest carries the marker has its Finding
C34_FindingEmitted ==
    \A key \in processedPackages :
       (/\ getLicense(ManifestOf(key[1])) \in Unlicensed
        /\ ~isPackageAllowlisted(config, key[1])) =>
          \E i \in DOMAIN trace :
             /\ IsFinding(trace[i])
             /\ trace[i].packageName = key[1]
             /\ trace[i].licenseName \in Unlicensed

\* the local package closed, licensed 'UNLICENCED', was flagged
C34_ClosedFlagged ==
    \E i \in DOMAIN trace :
       /\ IsFinding(trace[i])
       /\ trace[i].packageName = "closed"
       /\ trace[i].licenseName = <<"UNLICENCED">>

----------------------------------------------------------------------------
\* the commit has the package.json asked for: the contents API answers with
\* a file, of no bytes maybe; with content: the file has bytes
HasFile(answer, content) ==
    answer = "text" \/ (~content /\ answer = "empty")

\* the places in the listing of packages/ of the directories that have a
\* package.json
PackageDirs(repo, content) ==
    {k \in DOMAIN repo.entries :
        repo.entries[k].type = "dir" /\ HasFile(repo.entries[k].answer, content)}

\* files is the top-level package.json, when the commit has it, followed by
\* the package.json of each directory of packages/ that has one, in the
\* order of the listing
IsListingOf(files, repo, content) ==
    LET offset == IF HasFile(repo.top, content) THEN 1 ELSE 0
        dirs == IF repo.packages = "array" THEN PackageDirs(repo, content) ELSE {}
    IN  /\ Len(files) = offset + Cardinality(dirs)
        /\ HasFile(repo.top, content) => files[1].filePath = <<"package.json">>
        /\ \A k \in dirs :
              files[offset + Cardinality({d \in dirs : d <= k})].filePath
                  = <<"packages", repo.entries[k].name, "package.json">>

\* C35: getPackageJsonFiles returns the top-level package.json first, when
\* it exists, followed by one entry per 'dir' entry of the packages/ listing
\* that has a package.json, in listing order; other entries and directories
\* without a package.json are skipped, and a failed packages/ listing yields
\* just the top-level file.
C35_PackageJsonFiles ==
    (fnCall.fn = "getPackageJsonFiles" /\ ~fnResult.threw) =>
        IsListingOf(fnResult.files, fnCall.arg, FALSE)

\* the same, counting a package.json only when it has content
C35_FilesWithContent ==
    (fnCall.fn = "getPackageJsonFiles" /\ ~fnResult.threw) =>
        /\ IsListingOf(fnResult.files, fnCall.arg, TRUE)
        /\ \A k \in DOMAIN fnResult.files : fnResult.files[k].content # <<>>

\* a monorepo with a directory, a file and a directory under packages/ gave
\* three files
C35_Monorepo ==
    /\ fnCall.fn = "getPackageJsonFiles"
    /\ fnCall.arg.top = "text"
    /\ Len(fnCall.arg.entries) = 3
    /\ fnCall.arg.entries[2].type = "file"
    /\ ~fnResult.threw
    /\ Len(fnResult.files) = 3
    /\ fnResult.files[3].filePath = <<"packages", "baz", "package.json">>

----------------------------------------------------------------------------
\* C36: the local-package lookup of the revision src/src/checker.ts removes
\* a leading tilde or caret from the version specifier and leaves every other
\* specifier unchanged, so an edge to the registered local package sub@1.0.0
\* written as ^1.0.0, ~1.0.0 or 1.0.0 is skipped without a registry fetch.
C36_LookupStripsRangeCharacter ==
    fnCall.fn = "checkLicenses" =>
        /\ fnResult.version = WithoutRangeCharacter(fnCall.arg)
        /\ WithoutRangeCharacter(fnCall.arg) = ExactVersion =>
              fnResult.outcome = "skip"

\* the same for the specifiers that begin with a caret
C36_CaretStripped ==
    (fnCall.fn = "checkLicenses" /\ fnCall.arg # <<>> /\ Head(fnCall.arg) = "^") =>
        /\ fnResult.version = WithoutRangeCharacter(fnCall.arg)
        /\ WithoutRangeCharacter(fnCall.arg) = ExactVersion =>
              fnResult.outcome = "skip"

\* the edge ^1.0.0 to the registered sub@1.0.0 was skipped
C36_CaretSkipped ==
    /\ fnCall.fn = "checkLicenses"
    /\ fnCall.arg = <<"^">> \o ExactVersion
    /\ fnResult.outcome = "skip"

\* the edge 1.0.0 to the registered sub@1.0.0 was looked up as .0.0 and
\* went on to the registry
C36_ExactFetched ==
    /\ fnCall.fn = "checkLicenses"
    /\ fnCall.arg = ExactVersion
    /\ fnResult.version = Tail(ExactVersion)
    /\ fnResult.outcome = "await"

----------------------------------------------------------------------------
\* the name@version a run of checkLocalDirectory can register
LocalKeys == UNION {NamedKeys(directory) : directory \in LocalDirectories}

\* the next step of the dependency loop skips an edge because key, its name
\* and its version specifier without a leading ~ or ^, is in localPackages
SkipsAsLocal(key) ==
    /\ status = "walking"
    /\ stack # <<>>
    /\ Top(stack).kind = "checkPackageJson"
    /\ Top(stack).loop \in {"deps", "dev"}
    /\ Top(stack).i <= Len(DepsOf(Top(stack)))
    /\ LET dep == DepsOf(Top(stack))[Top(stack).i]
       IN  /\ dep.isString
           /\ At(dep.pkg, dep.spec) \notin failedPackages
           /\ At(dep.pkg, Stripped(dep.spec)) = key
           /\ key \in localPackages

\* checkRemotePackage has skipped its argument: nothing has failed since
\* init, so the argument was found in localPackages
EntrySkipped ==
    /\ status = "walking"
    /\ Len(stack) = 1
    /\ Entry.kind = "checkRemotePackage"
    /\ trace = <<>>

\* C37: whenever an edge is skipped because its name@version is in the
\* local-package registry, that package is classified as a root node within
\* the same run: skipping the edge never leaves a package unchecked.
C37_SkippedLocalIsClassified ==
    /\ \A key \in LocalKeys, n \in 1..MaxRuns :
          (SkipsAsLocal(key) /\ runs = n) ~> (runs = n /\ key \in processedPackages)
    /\ \A n \in 1..MaxRuns :
          (EntrySkipped /\ runs = n) ~> (runs = n /\ processedPackages # {})

\* the same for the runs of a new instance that has an 'error' listener
C37_FirstRunWithListener ==
    \A key \in LocalKeys :
       (SkipsAsLocal(key) /\ runs = 1 /\ opts.errorListener)
           ~> (runs = 1 /\ key \in processedPackages)

\* the edge mono -> sub@^1.0.0 is about to be skipped in a first run
C37_SubSkipped ==
    /\ SkipsAsLocal(At("sub", V("1.0.0")))
    /\ runs = 1
    /\ opts.errorListener

\* a second run on the instance skips the argument of checkRemotePackage
C37_StaleSkip == EntrySkipped /\ runs = 2

----------------------------------------------------------------------------
\* the promise of the call the caller made is settled as the latest call of
\* the retry chain was: with its SHAs or with its error
SettledAsLatest ==
    LET latest == prCalls[Len(prCalls)]
    IN  /\ prCalls[1].state \in {"resolved", "rejected"}
        /\ prCalls[1].state = latest.state
        /\ latest.state = "resolved" => prCalls[1].value = latest.value
        /\ latest.state = "rejected" => prCalls[1].error = latest.error

\* C38: every call of getPRCommits settles for its caller, whatever the
\* sequence of answers: when nothing is left to happen, the promise of the
\* original call has resolved with both SHAs or has rejected with the error
\* of the attempt that ended the retries, also when that attempt is a retry
\* made after one or more answers with mergeable unset.
C38_SettlesForCaller == IsQuiescent => SettledAsLatest

\* the same for the calls that are answered at once and the retry chains
\* whose last call returns
C38_SettlesUnlessRetryThrows ==
    (/\ IsQuiescent
     /\ Len(prCalls) = 1 \/ prCalls[Len(prCalls)].state = "resolved") =>
        SettledAsLatest

\* a retry was answered not mergeable: the retry threw, the caller's promise
\* is pending for good and the error is an unhandled rejection
C38_RetryThrew ==
    /\ IsQuiescent
    /\ Len(prCalls) = 2
    /\ prCalls[2].error = <<"PR is not mergeable">>
    /\ prCalls[1].state = "pending"
    /\ prUnhandled = <<<<"PR is not mergeable">>>>

----------------------------------------------------------------------------
\* the 'error' event i of the trace reports a failure of its own edge: the
\* fetch of that edge failed, or it answered with a manifest that does not
\* pass validation
IsOwnFailure(i) ==
    \E j \in 1..(i - 1) :
       /\ IsFetch(trace[j])
       /\ trace[j].packageName = trace[i].packageName
       /\ trace[j].version = trace[i].version
       /\ trace[j].parentPackages = trace[i].parentPackages
       /\ \/ ~ResultOf(trace[j]).ok
          \/ /\ ~isPackageAllowlisted(config, trace[j].packageName)
             /\ ~isPackageJson(ResultOf(trace[j]).json)

\* the places in the trace of the 'error' events of the spec key
EdgeErrorsOf(key) ==
    {i \in DOMAIN trace :
        IsEdgeError(trace[i]) /\ At(trace[i].packageName, trace[i].version) = key}

\* C39: a request spec enters the failed set, and an 'error' event naming it
\* is emitted, only when its own fetch or its own manifest validation
\* failed; a failure among its descendants never marks an ancestor as failed
\* and never produces an 'error' event for the ancestor.
C39_OnlyOwnFailures ==
    /\ \A i \in DOMAIN trace : IsEdgeError(trace[i]) => IsOwnFailure(i)
    /\ status = "walking" =>
          \A key \in failedPackages :
             \E i \in EdgeErrorsOf(key) : IsOwnFailure(i)

\* the same for the runs with an 'error' listener and the packages that are
\* not allow-listed
C39_WithListener ==
    opts.errorListener =>
       /\ \A i \in DOMAIN trace :
             (/\ IsEdgeError(trace[i])
              /\ ~isPackageAllowlisted(config, trace[i].packageName)) =>
                IsOwnFailure(i)
       /\ status = "walking" =>
             \A key \in failedPackages :
                ~isPackageAllowlisted(config, key[1]) =>
                   \E i \in EdgeErrorsOf(key) : IsOwnFailure(i)

\* a fetch failed below a package whose own fetch and manifest were good,
\* the failure was reported for the dependency only and the walk went on
C39_ChildFailureOnly ==
    /\ opts.errorListener
    /\ status = "walking"
    /\ \E i \in DOMAIN trace :
          /\ IsEdgeError(trace[i])
          /\ Len(trace[i].parentPackages) >= 2
          /\ IsOwnFailure(i)
          /\ i < Len(trace)
          /\ Cardinality(failedPackages) = 1

====
